---- MODULE Spec2Model ----
(***************************************************************************)
(* FRMR -> OSCAL processor (FR_docs_to_OSCAL/process_frmr_to_oscal.py).    *)
(*                                                                         *)
(* Strings are sequences of one-character strings, so that prefixes,       *)
(* splitting, case folding and substring search are computed as the code   *)
(* computes them.  A JSON value is a record with a single field naming its *)
(* Python type: [str |-> s], [dict |-> <<k1, v1>>, ...] (insertion order), *)
(* [list |-> xs], [bool |-> b], [num |-> n], [null |-> TRUE].              *)
(***************************************************************************)
EXTENDS Integers, Sequences, FiniteSets, TLC

VARIABLES
    store,      \* output location: version -> file name -> file
    clock,      \* the wall clock, in whole seconds (strftime drops the rest)
    lastRun,    \* what the last run of main() decided and printed
    indicator,  \* a raw record handed to the impact resolver
    impact,     \* the resolver's answer for it
    recs,       \* the raw records of the document handed to a parser
    parser,     \* which of the four parsers was applied to them
    out,        \* that parser's result
    document,   \* the document handed to it, as it is after the call
    call,       \* a function of the program and the arguments handed to it
    result,     \* what it returned
    pending,    \* per concurrent run of main(): what it built and has yet to write
    history     \* the first `published` written per file, whether runs overlapped, the runs started

vars == <<store, clock, lastRun, indicator, impact, recs, parser, out, document, call,
          result, pending, history>>

(***************************************************************************)
(* Characters and strings                                                  *)
(***************************************************************************)
UpperChars == <<"A","B","C","D","E","F","G","H","I","J","K","L","M",
                "N","O","P","Q","R","S","T","U","V","W","X","Y","Z">>
LowerChars == <<"a","b","c","d","e","f","g","h","i","j","k","l","m",
                "n","o","p","q","r","s","t","u","v","w","x","y","z">>
DigitChars == <<"0","1","2","3","4","5","6","7","8","9">>

\* The characters of the model in code point order (Python compares strings
\* by code point).
CodePoints == <<"\n", " ", "\"", "'", "*", "-", ".">> \o DigitChars \o <<":">>
              \o UpperChars \o <<"_">> \o LowerChars

Range(s) == {s[i] : i \in DOMAIN s}

Ord(c) == CHOOSE i \in DOMAIN CodePoints : CodePoints[i] = c

IsUpper(c) == c \in Range(UpperChars)
IsLower(c) == c \in Range(LowerChars)
IsAlnum(c) == c \in Range(UpperChars) \cup Range(LowerChars) \cup Range(DigitChars)
IsSpace(c) == c \in {" ", "\n"}
\* \w of Python's re on str patterns: letters, digits and the underscore
IsWord(c) == IsAlnum(c) \/ c = "_"

LowerChar(c) ==
    IF IsUpper(c) THEN LowerChars[CHOOSE i \in DOMAIN UpperChars : UpperChars[i] = c]
    ELSE c
UpperChar(c) ==
    IF IsLower(c) THEN UpperChars[CHOOSE i \in DOMAIN LowerChars : LowerChars[i] = c]
    ELSE c

\* str.lower(), str.upper()
Lower(s) == [i \in DOMAIN s |-> LowerChar(s[i])]
Upper(s) == [i \in DOMAIN s |-> UpperChar(s[i])]

\* s[i:] with a 0-based i, as Python slices
From(s, i) == SubSeq(s, i + 1, Len(s))

\* str.startswith, str.endswith
StartsWith(s, p) == Len(p) <= Len(s) /\ SubSeq(s, 1, Len(p)) = p
EndsWith(s, p) == Len(p) <= Len(s) /\ SubSeq(s, Len(s) - Len(p) + 1, Len(s)) = p

\* `p in s` for strings
Contains(s, p) ==
    \E i \in 1..(Len(s) - Len(p) + 1) : SubSeq(s, i, i + Len(p) - 1) = p

\* str.split(sep) for a one-character separator: never empty, keeps empty fields
RECURSIVE Split(_, _)
Split(s, sep) ==
    IF \A i \in DOMAIN s : s[i] # sep THEN <<s>>
    ELSE LET i == CHOOSE j \in DOMAIN s : s[j] = sep /\ \A k \in 1..(j - 1) : s[k] # sep
         IN  <<SubSeq(s, 1, i - 1)>> \o Split(SubSeq(s, i + 1, Len(s)), sep)

\* sep.join(parts)
RECURSIVE Join(_, _)
Join(parts, sep) ==
    IF parts = <<>> THEN <<>>
    ELSE IF Len(parts) = 1 THEN parts[1]
    ELSE parts[1] \o sep \o Join(Tail(parts), sep)

\* str.replace(a, b) for one-character a and b
ReplaceChar(s, a, b) == [i \in DOMAIN s |-> IF s[i] = a THEN b ELSE s[i]]

\* str.lstrip(), str.rstrip(), str.strip()
RECURSIVE LStrip(_)
LStrip(s) == IF s # <<>> /\ IsSpace(s[1]) THEN LStrip(Tail(s)) ELSE s
RECURSIVE RStrip(_)
RStrip(s) == IF s # <<>> /\ IsSpace(s[Len(s)]) THEN RStrip(SubSeq(s, 1, Len(s) - 1)) ELSE s
Strip(s) == RStrip(LStrip(s))

\* s < t for strings: code point order, a proper prefix first
RECURSIVE StrLess(_, _)
StrLess(s, t) ==
    IF t = <<>> THEN FALSE
    ELSE IF s = <<>> THEN TRUE
    ELSE IF s[1] = t[1] THEN StrLess(Tail(s), Tail(t))
    ELSE Ord(s[1]) < Ord(t[1])

\* sorted(xs) for a list of strings (stable; equal strings stay duplicated)
RECURSIVE Insert(_, _)
Insert(sortedXs, x) ==
    IF sortedXs = <<>> THEN <<x>>
    ELSE IF StrLess(x, sortedXs[1]) THEN <<x>> \o sortedXs
    ELSE <<sortedXs[1]>> \o Insert(Tail(sortedXs), x)
RECURSIVE Sorted(_)
Sorted(xs) ==
    IF xs = <<>> THEN <<>>
    ELSE Insert(Sorted(SubSeq(xs, 1, Len(xs) - 1)), xs[Len(xs)])

(***************************************************************************)
(* JSON values and the dict / isinstance idioms of the code                *)
(***************************************************************************)
JStr(s)   == [str |-> s]
JDict(kv) == [dict |-> kv]
JList(xs) == [list |-> xs]
JBool(b)  == [bool |-> b]
JNum(n)   == [num |-> n]
None      == [null |-> TRUE]

IsStr(v)  == "str" \in DOMAIN v
IsDict(v) == "dict" \in DOMAIN v
IsList(v) == "list" \in DOMAIN v
IsBool(v) == "bool" \in DOMAIN v

EmptyDict == JDict(<<>>)
EmptyStr  == JStr(<<>>)

\* Python truthiness: `if v`, `not v`, `a or b`
Truthy(v) ==
    CASE IsStr(v)  -> v.str # <<>>
      [] IsDict(v) -> v.dict # <<>>
      [] IsList(v) -> v.list # <<>>
      [] IsBool(v) -> v.bool
      [] "num" \in DOMAIN v -> v.num # 0
      [] OTHER -> FALSE
Or(a, b) == IF Truthy(a) THEN a ELSE b

\* `k in d`, d[k], d.get(k, default), d.get(k) for a dict d
Has(d, k) == \E i \in DOMAIN d.dict : d.dict[i][1] = k
At(d, k)  == d.dict[CHOOSE i \in DOMAIN d.dict : d.dict[i][1] = k][2]
Get(d, k, default) == IF Has(d, k) THEN At(d, k) ELSE default
GetOrNone(d, k) == Get(d, k, None)

\* The field names the code looks up
k_statement == <<"s","t","a","t","e","m","e","n","t">>
k_varies_by_level == <<"v","a","r","i","e","s","_","b","y","_","l","e","v","e","l">>
k_low == <<"l","o","w">>
k_moderate == <<"m","o","d","e","r","a","t","e">>
k_high == <<"h","i","g","h">>
k_impact == <<"i","m","p","a","c","t">>
k_retired == <<"r","e","t","i","r","e","d">>
k_following_information == <<"f","o","l","l","o","w","i","n","g","_","i","n","f","o","r","m","a","t","i","o","n">>
k_name == <<"n","a","m","e">>
k_id == <<"i","d">>
k_info == <<"i","n","f","o">>
k_version == <<"v","e","r","s","i","o","n">>
k_releases == <<"r","e","l","e","a","s","e","s">>
k_KSI == <<"K","S","I">>
k_FRR == <<"F","R","R">>
k_FRD == <<"F","R","D">>
k_data == <<"d","a","t","a">>
k_indicators == <<"i","n","d","i","c","a","t","o","r","s">>
k_short_name == <<"s","h","o","r","t","_","n","a","m","e">>
k_theme == <<"t","h","e","m","e">>
k_requirements == <<"r","e","q","u","i","r","e","m","e","n","t","s">>
k_front_matter == <<"f","r","o","n","t","_","m","a","t","t","e","r">>

Levels == <<k_low, k_moderate, k_high>>

(***************************************************************************)
(* IdNormalizer                                                            *)
(***************************************************************************)
Dash == <<"-">>
KSI_PREFIX == <<"K","S","I","-">>
FRR_PREFIX == <<"F","R","R","-">>

LowerAll(parts) == [i \in DOMAIN parts |-> Lower(parts[i])]

\* a normalizer that recognises the prefix in either case
normalize_control_id_any_case(raw_id, prefix) ==
    LET remainder == IF StartsWith(Upper(raw_id), Upper(prefix)) THEN From(raw_id, Len(prefix))
                     ELSE raw_id
        parts == Split(remainder, "-")
    IN  IF Len(parts) >= 2 THEN Join(LowerAll(parts), Dash)
        ELSE ReplaceChar(Lower(remainder), "_", "-")

normalize_control_id(raw_id, prefix) ==
    LET remainder == IF StartsWith(raw_id, prefix) THEN From(raw_id, Len(prefix)) ELSE raw_id
        parts == Split(remainder, "-")
    IN  IF Len(parts) >= 2 THEN Join(LowerAll(parts), Dash)
        ELSE ReplaceChar(Lower(remainder), "_", "-")

\* a normalizer that keeps the first two segments only
normalize_frr_control_id_two_segments(frr_id, standard) ==
    LET remainder == IF StartsWith(frr_id, FRR_PREFIX) THEN From(frr_id, 4) ELSE frr_id
        parts == Split(remainder, "-")
        idParts == Split(frr_id, "-")
    IN  IF Len(parts) >= 2 THEN Join(LowerAll(SubSeq(parts, 1, 2)), Dash)
        ELSE Lower(standard) \o Dash \o Lower(idParts[Len(idParts)])

normalize_frr_control_id(frr_id, standard) ==
    LET remainder == IF StartsWith(frr_id, FRR_PREFIX) THEN From(frr_id, 4) ELSE frr_id
        parts == Split(remainder, "-")
        idParts == Split(frr_id, "-")
    IN  IF Len(parts) >= 2 THEN Join(LowerAll(parts), Dash)
        ELSE Lower(standard) \o Dash \o Lower(idParts[Len(idParts)])

(***************************************************************************)
(* ProseCleaner                                                            *)
(***************************************************************************)
Stars == <<"*","*">>

\* re.sub(r'\*\*(.+?)\*\*', r'\1', s): leftmost matches, the shortest body of
\* at least one character without a newline
RECURSIVE BoldSub(_)
BoldSub(s) ==
    IF s = <<>> THEN <<>>
    ELSE LET K == {k \in 1..(Len(s) - 4) :
                     /\ SubSeq(s, 3 + k, 4 + k) = Stars
                     /\ \A j \in 3..(2 + k) : s[j] # "\n"}
         IN  IF StartsWith(s, Stars) /\ K # {}
             THEN LET k == CHOOSE x \in K : \A y \in K : x <= y
                  IN  SubSeq(s, 3, 2 + k) \o BoldSub(SubSeq(s, 5 + k, Len(s)))
             ELSE <<s[1]>> \o BoldSub(Tail(s))

\* [A-Za-z0-9\s]
InPhrase(c) == IsAlnum(c) \/ IsSpace(c)

\* the last index of the longest run of [A-Za-z0-9\s] starting at index j
\* (j - 1 when s[j] is not in the class)
RECURSIVE RunEnd(_, _)
RunEnd(s, j) == IF j <= Len(s) /\ InPhrase(s[j]) THEN RunEnd(s, j + 1) ELSE j - 1

\* \b between index i - 1 and index i (i in 1..Len(s) + 1)
Boundary(s, i) ==
    LET before == i > 1 /\ IsWord(s[i - 1])
        after  == i <= Len(s) /\ IsWord(s[i])
    IN  before # after

\* re.sub(r'_([A-Za-z0-9][A-Za-z0-9\s]*[A-Za-z0-9])_', r'\1', s), from index i
RECURSIVE UnderWrapped(_, _)
UnderWrapped(s, i) ==
    IF i > Len(s) THEN <<>>
    ELSE LET m == RunEnd(s, i + 1)
         IN  IF /\ s[i] = "_"
                /\ m >= i + 2
                /\ IsAlnum(s[i + 1]) /\ IsAlnum(s[m])
                /\ m + 1 <= Len(s) /\ s[m + 1] = "_"
             THEN SubSeq(s, i + 1, m) \o UnderWrapped(s, m + 2)
             ELSE <<s[i]>> \o UnderWrapped(s, i + 1)

\* re.sub(r'\b_([A-Za-z0-9][A-Za-z0-9\s]*[A-Za-z0-9])\b', r'\1', s), from index i
RECURSIVE UnderLeading(_, _)
UnderLeading(s, i) ==
    IF i > Len(s) THEN <<>>
    ELSE LET m == RunEnd(s, i + 1)
             E == {e \in (i + 2)..m : IsAlnum(s[e]) /\ Boundary(s, e + 1)}
         IN  IF /\ s[i] = "_" /\ Boundary(s, i)
                /\ i + 1 <= Len(s) /\ IsAlnum(s[i + 1])
                /\ E # {}
             THEN LET e == CHOOSE x \in E : \A y \in E : y <= x
                  IN  SubSeq(s, i + 1, e) \o UnderLeading(s, e + 1)
             ELSE <<s[i]>> \o UnderLeading(s, i + 1)

\* re.sub(r'\b([A-Za-z0-9][A-Za-z0-9\s]*[A-Za-z0-9])_\b', r'\1', s), from index i
RECURSIVE UnderTrailing(_, _)
UnderTrailing(s, i) ==
    IF i > Len(s) THEN <<>>
    ELSE LET m == RunEnd(s, i)
         IN  IF /\ Boundary(s, i) /\ IsAlnum(s[i])
                /\ m >= i + 1 /\ IsAlnum(s[m])
                /\ m + 1 <= Len(s) /\ s[m + 1] = "_"
                /\ Boundary(s, m + 2)
             THEN SubSeq(s, i, m) \o UnderTrailing(s, m + 2)
             ELSE <<s[i]>> \o UnderTrailing(s, i + 1)

\* text[1:-1] when the text starts and ends with the quote character q
Unquote(s, q) ==
    IF StartsWith(s, <<q>>) /\ EndsWith(s, <<q>>) THEN SubSeq(s, 2, Len(s) - 1) ELSE s

clean_prose(text) ==
    IF text = <<>> THEN text
    ELSE UnderTrailing(
             UnderLeading(
                 UnderWrapped(BoldSub(Unquote(Unquote(Strip(text), "\""), "'")), 1),
                 1),
             1)

generate_title(name, control_id) ==
    IF name # <<>> /\ Strip(name) # <<>> /\ clean_prose(Strip(name)) # <<>>
    THEN clean_prose(Strip(name))
    ELSE Upper(control_id)

(***************************************************************************)
(* Statement resolution and ImpactResolver                                 *)
(***************************************************************************)
\* the statement text of a varies_by_level entry: the entry itself when it is
\* a string, its `statement` (default "") when it is a dict, "" otherwise
LevelStatement(level_data) ==
    IF IsDict(level_data) THEN Get(level_data, k_statement, EmptyStr)
    ELSE IF IsStr(level_data) THEN level_data
    ELSE EmptyStr

\* the fallback loop over moderate, low, high, from position i of the list
RECURSIVE StatementFallback(_, _, _)
StatementFallback(varies, order, i) ==
    IF i > Len(order) THEN EmptyStr
    ELSE IF Has(varies, order[i]) /\ Truthy(LevelStatement(At(varies, order[i])))
         THEN LevelStatement(At(varies, order[i]))
         ELSE StatementFallback(varies, order, i + 1)

FallbackOrder == <<k_moderate, k_low, k_high>>

get_indicator_statement(ind, level) ==
    LET statement == Get(ind, k_statement, EmptyStr)
        varies == GetOrNone(ind, k_varies_by_level)
    IN  IF Truthy(statement) THEN statement
        ELSE IF Truthy(varies) /\ IsDict(varies)
             THEN IF /\ Has(varies, level)
                     /\ (IsDict(At(varies, level)) \/ IsStr(At(varies, level)))
                  THEN LevelStatement(At(varies, level))
                  ELSE StatementFallback(varies, FallbackOrder, 1)
             ELSE EmptyStr

OptionalMarker == <<"O","p","t","i","o","n","a","l",":">>
BoldOptionalMarker == Stars \o OptionalMarker \o Stars

\* a test for the bold marker alone
IsOptional_bold(stmt) == Truthy(stmt) /\ Contains(stmt.str, BoldOptionalMarker)

\* the test of line 279 on a level's statement
IsOptional(stmt) ==
    /\ Truthy(stmt)
    /\ (Contains(stmt.str, BoldOptionalMarker) \/ Contains(stmt.str, OptionalMarker))

LevelSet == {k_low, k_moderate, k_high}
NoImpact == [l \in LevelSet |-> JBool(FALSE)]

\* the varies_by_level branch: a level present as a key applies unless its
\* statement carries the marker
VariesImpact(varies) ==
    [l \in LevelSet |->
        IF Has(varies, l) THEN JBool(~IsOptional(LevelStatement(At(varies, l))))
        ELSE JBool(FALSE)]

\* a resolver that consults the explicit impact object before the direct
\* statement
extract_impact_from_indicator_impact_first(ind) ==
    LET varies == GetOrNone(ind, k_varies_by_level)
        old_impact == GetOrNone(ind, k_impact)
    IN  IF Truthy(varies) /\ IsDict(varies) THEN VariesImpact(varies)
        ELSE IF IsDict(old_impact)
             THEN [l \in LevelSet |-> Get(old_impact, l, JBool(FALSE))]
             ELSE IF Truthy(GetOrNone(ind, k_statement)) THEN [l \in LevelSet |-> JBool(TRUE)]
             ELSE NoImpact

extract_impact_from_indicator(ind) ==
    LET varies == GetOrNone(ind, k_varies_by_level)
        old_impact == Get(ind, k_impact, EmptyDict)
    IN  IF Truthy(varies) /\ IsDict(varies) THEN VariesImpact(varies)
        ELSE IF Truthy(GetOrNone(ind, k_statement)) THEN [l \in LevelSet |-> JBool(TRUE)]
        ELSE IF IsDict(old_impact)
             THEN [l \in LevelSet |-> Get(old_impact, l, JBool(FALSE))]
             ELSE NoImpact

(***************************************************************************)
(* Parsers: shared record shaping                                          *)
(***************************************************************************)
KSI_GROUP_TITLES == JDict(<<
    <<<<"C","N","A">>,
      JStr(<<"C","l","o","u","d"," ","N","a","t","i","v","e"," ","A","r","c","h","i","t","e","c","t","u","r","e">>)>>,
    <<<<"S","V","C">>,
      JStr(<<"S","e","r","v","i","c","e"," ","C","o","n","f","i","g","u","r","a","t","i","o","n">>)>>,
    <<<<"I","A","M">>,
      JStr(<<"I","d","e","n","t","i","t","y"," ","a","n","d"," ","A","c","c","e","s","s"," ","M","a","n","a","g","e","m","e","n","t">>)>>,
    <<<<"M","L","A">>,
      JStr(<<"M","o","n","i","t","o","r","i","n","g",","," ","L","o","g","g","i","n","g",","," ","a","n","d"," ","A","u","d","i","t","i","n","g">>)>>,
    <<<<"C","M","T">>,
      JStr(<<"C","h","a","n","g","e"," ","M","a","n","a","g","e","m","e","n","t">>)>>,
    <<<<"P","I","Y">>,
      JStr(<<"P","o","l","i","c","y"," ","a","n","d"," ","I","n","v","e","n","t","o","r","y">>)>>,
    <<<<"S","C","R">>,
      JStr(<<"S","u","p","p","l","y"," ","C","h","a","i","n"," ","R","i","s","k">>)>>,
    <<<<"C","E","D">>,
      JStr(<<"C","y","b","e","r","s","e","c","u","r","i","t","y"," ","E","d","u","c","a","t","i","o","n">>)>>,
    <<<<"R","P","L">>,
      JStr(<<"R","e","c","o","v","e","r","y"," ","P","l","a","n","n","i","n","g">>)>>,
    <<<<"I","N","R">>,
      JStr(<<"I","n","c","i","d","e","n","t"," ","R","e","s","p","o","n","s","e">>)>>,
    <<<<"A","F","R">>,
      JStr(<<"A","u","t","h","o","r","i","z","a","t","i","o","n"," ","b","y"," ","F","e","d","R","A","M","P">>)>>,
    <<<<"T","P","R">>,
      JStr(<<"T","h","i","r","d","-","P","a","r","t","y"," ","I","n","f","o","r","m","a","t","i","o","n"," ","R","e","s","o","u","r","c","e","s">>)>>
>>)

\* str(n) for n >= 0
RECURSIVE IntStr(_)
IntStr(n) == IF n < 10 THEN <<DigitChars[n + 1]>>
             ELSE IntStr(n \div 10) \o <<DigitChars[(n % 10) + 1]>>

SmtSuffix  == <<"_","s","m","t">>
ItemInfix  == <<".","i","t","e","m",".">>
n_statement == <<"s","t","a","t","e","m","e","n","t">>
n_item      == <<"i","t","e","m">>

\* what a parser returns: controls (a list), control_impacts and
\* control_following_info (dicts keyed by control id, as functions), and the
\* raw requirement ids seen so far (seen_req_ids)
\* touched: where in the document the records are whose `impact` object the
\* parser has written to
EmptyParse == [controls |-> <<>>, impacts |-> <<>>, following |-> <<>>, seen |-> {},
               touched |-> <<>>]

\* d[k] = v for a dict held as a function
Put(d, k, v) == [x \in DOMAIN d \cup {k} |-> IF x = k THEN v ELSE d[x]]
\* d.update(e)
Update(d, e) == [x \in DOMAIN d \cup DOMAIN e |-> IF x \in DOMAIN e THEN e[x] ELSE d[x]]

\* the statement part followed by one item part per following_information entry
BuildParts(control_id, cleaned_statement, following_info) ==
    <<[id |-> control_id \o SmtSuffix, name |-> n_statement, prose |-> cleaned_statement]>>
    \o (IF Truthy(following_info)
        THEN [idx \in DOMAIN following_info.list |->
                [id |-> control_id \o SmtSuffix \o ItemInfix \o IntStr(idx),
                 name |-> n_item,
                 prose |-> clean_prose(following_info.list[idx].str)]]
        ELSE <<>>)

\* the tail every parser shares once a record has an id and a statement:
\* record the impact, the following information when there is any, and
\* append the control
Emit(acc, rec, control_id, group_id, group_title, statement, rec_impact) ==
    LET following_info == Get(rec, k_following_information, JList(<<>>))
    IN  [acc EXCEPT
            !.impacts = Put(@, control_id, rec_impact),
            !.following = IF Truthy(following_info) THEN Put(@, control_id, following_info) ELSE @,
            !.controls = Append(@,
                [group_id |-> group_id, group_title |-> group_title,
                 control |->
                     [id |-> control_id,
                      title |-> generate_title(Get(rec, k_name, EmptyStr).str, control_id),
                      parts |-> BuildParts(control_id, clean_prose(statement.str),
                                           following_info)]])]

(***************************************************************************)
(* SchemaParser, consolidated variant                                      *)
(***************************************************************************)
\* the loop over one theme's indicators, from position i
RECURSIVE KsiIndicators(_, _, _, _, _)
KsiIndicators(acc, items, i, group_id, theme_name) ==
    IF i > Len(items) THEN acc
    ELSE LET indicator_id == items[i][1]
             ind == items[i][2]
             control_id == normalize_control_id(indicator_id, KSI_PREFIX)
             statement == get_indicator_statement(ind, k_moderate)
         IN  KsiIndicators(
                 IF ~IsDict(ind) THEN acc
                 ELSE IF Truthy(Get(ind, k_retired, JBool(FALSE))) THEN acc
                 ELSE IF ~Truthy(statement) THEN acc
                 ELSE Emit(acc, ind, control_id, group_id, theme_name, statement,
                           extract_impact_from_indicator(ind)),
                 items, i + 1, group_id, theme_name)

\* the loop over the themes, from position i
RECURSIVE KsiThemes(_, _, _)
KsiThemes(acc, themes, i) ==
    IF i > Len(themes) THEN acc
    ELSE LET theme_key == themes[i][1]
             theme_data == themes[i][2]
             group_id == Or(GetOrNone(theme_data, k_short_name), JStr(theme_key))
             theme_name == Or(GetOrNone(theme_data, k_name),
                              Or(GetOrNone(theme_data, k_theme),
                                 Get(KSI_GROUP_TITLES, group_id.str, group_id)))
             indicators_obj == Get(theme_data, k_indicators, EmptyDict)
         IN  KsiThemes(
                 IF theme_key \in {k_info, k_data} THEN acc
                 ELSE IF ~IsDict(theme_data) THEN acc
                 ELSE IF ~IsDict(indicators_obj) THEN acc
                 ELSE KsiIndicators(acc, indicators_obj.dict, 1, group_id.str, theme_name.str),
                 themes, i + 1)

parse_ksi_consolidated(data) ==
    LET ksi_section == Get(data, k_KSI, EmptyDict)
        ksi_data == Get(ksi_section, k_data, ksi_section)
        themes == IF IsDict(ksi_data) THEN ksi_data ELSE EmptyDict
    IN  KsiThemes(EmptyParse, themes.dict, 1)

\* lines 582-597: the direct statement, else the first non-empty level
\* statement in the order moderate, low, high
RequirementStatement(req) ==
    LET statement == Get(req, k_statement, EmptyStr)
        varies == GetOrNone(req, k_varies_by_level)
    IN  IF Truthy(statement) THEN statement
        ELSE IF Truthy(varies) /\ IsDict(varies)
             THEN StatementFallback(varies, FallbackOrder, 1)
             ELSE statement

\* a parser that hands every raw id to normalize_frr_control_id
ControlIdOfRequirement_frr_only(req_id, standard) == normalize_frr_control_id(req_id, standard)

\* lines 599-603: the control id of a requirement, by whether its raw id has
\* the FRR- prefix
ControlIdOfRequirement(req_id, standard) ==
    IF StartsWith(req_id, FRR_PREFIX) THEN normalize_frr_control_id(req_id, standard)
    ELSE normalize_control_id(req_id, <<>>)

_process_single_frr_requirement(acc, req, standard, group_id, group_title) ==
    IF ~IsDict(req) THEN acc
    ELSE LET req_id == Get(req, k_id, EmptyStr)
             statement == RequirementStatement(req)
             control_id == ControlIdOfRequirement(req_id.str, standard)
         IN  IF ~Truthy(req_id) THEN acc
             ELSE IF req_id.str \in acc.seen THEN acc
             ELSE IF ~Truthy(statement) THEN [acc EXCEPT !.seen = @ \cup {req_id.str}]
             ELSE Emit([acc EXCEPT !.seen = @ \cup {req_id.str}], req, control_id,
                       group_id, group_title, statement,
                       extract_impact_from_indicator(req))

\* `for req in requirements: _process_single_frr_requirement(req, ...)`
RECURSIVE ProcessRequirements(_, _, _, _, _, _)
ProcessRequirements(acc, reqs, i, standard, group_id, group_title) ==
    IF i > Len(reqs) THEN acc
    ELSE ProcessRequirements(
             _process_single_frr_requirement(acc, reqs[i], standard, group_id, group_title),
             reqs, i + 1, standard, group_id, group_title)

HasRequirementsList(d) == Has(d, k_requirements) /\ IsList(At(d, k_requirements))

\* dict(inner_val) with req["id"] = inner_key when it has no id
WithId(inner_val, inner_key) ==
    IF Has(inner_val, k_id) THEN inner_val
    ELSE JDict(Append(inner_val.dict, <<k_id, JStr(inner_key)>>))

\* lines 534-551: the entries of a nested sub-section, from position i
RECURSIVE ProcessNested(_, _, _, _, _, _)
ProcessNested(acc, items, i, standard, group_id, group_title) ==
    IF i > Len(items) THEN acc
    ELSE LET inner_key == items[i][1]
             inner_val == items[i][2]
         IN  ProcessNested(
                 IF ~IsDict(inner_val) THEN acc
                 ELSE IF HasRequirementsList(inner_val)
                 THEN ProcessRequirements(acc, At(inner_val, k_requirements).list, 1,
                                          standard, group_id, group_title)
                 ELSE IF Has(inner_val, k_statement)
                 THEN _process_single_frr_requirement(acc, WithId(inner_val, inner_key),
                                                      standard, group_id, group_title)
                 ELSE acc,
                 items, i + 1, standard, group_id, group_title)

\* lines 526-530
HasNestedReqs(section_value) ==
    \E i \in DOMAIN section_value.dict :
        LET inner_val == section_value.dict[i][2]
        IN  IsDict(inner_val) /\ (Has(inner_val, k_statement) \/ Has(inner_val, k_requirements))

\* lines 510-551: the sub-sections of an FRR section, from position i
RECURSIVE ProcessSections(_, _, _, _, _, _)
ProcessSections(acc, items, i, standard, group_id, group_title) ==
    IF i > Len(items) THEN acc
    ELSE LET section_key == items[i][1]
             section_value == items[i][2]
         IN  ProcessSections(
                 IF section_key \in {k_info, k_data, k_front_matter} THEN acc
                 ELSE IF ~IsDict(section_value) THEN acc
                 ELSE IF HasRequirementsList(section_value)
                 THEN ProcessRequirements(acc, At(section_value, k_requirements).list, 1,
                                          standard, group_id, group_title)
                 ELSE IF HasNestedReqs(section_value)
                 THEN ProcessNested(acc, section_value.dict, 1, standard, group_id, group_title)
                 ELSE acc,
                 items, i + 1, standard, group_id, group_title)

_process_frr_section(acc, frr_data, standard, group_id, group_title) ==
    LET data_section == Get(frr_data, k_data, frr_data)
    IN  IF HasRequirementsList(frr_data)
        THEN ProcessRequirements(acc, At(frr_data, k_requirements).list, 1,
                                 standard, group_id, group_title)
        ELSE IF ~IsDict(data_section) THEN acc
        ELSE ProcessSections(acc, data_section.dict, 1, standard, group_id, group_title)

\* lines 449-465: the FRR data of a top-level section and the info block
\* that names it; frr_data is None when the section has none
FrrOf(data, top_key, top_value) ==
    IF top_key = k_FRR
    THEN [frr_data |-> top_value, section_info |-> Get(data, k_info, EmptyDict)]
    ELSE IF Has(top_value, k_FRR)
    THEN [frr_data |-> At(top_value, k_FRR), section_info |-> Get(top_value, k_info, EmptyDict)]
    ELSE IF /\ Has(top_value, k_data)
            /\ IsDict(At(top_value, k_data))
            /\ Has(At(top_value, k_data), k_FRR)
    THEN [frr_data |-> At(At(top_value, k_data), k_FRR),
          section_info |-> Get(top_value, k_info, EmptyDict)]
    ELSE [frr_data |-> None, section_info |-> EmptyDict]

\* the loop over the top-level keys of the document, from position i
RECURSIVE FrrTopLevel(_, _, _, _)
FrrTopLevel(acc, data, items, i) ==
    IF i > Len(items) THEN acc
    ELSE LET top_key == items[i][1]
             top_value == items[i][2]
             f == FrrOf(data, top_key, top_value)
             standard == Or(GetOrNone(f.section_info, k_short_name), JStr(top_key))
             group_title == Or(GetOrNone(f.section_info, k_name),
                               Get(KSI_GROUP_TITLES, standard.str, standard))
         IN  FrrTopLevel(
                 IF ~IsDict(top_value) THEN acc
                 ELSE IF top_key \in {k_info, k_FRD, k_KSI} THEN acc
                 ELSE IF ~Truthy(f.frr_data) \/ ~IsDict(f.frr_data) THEN acc
                 ELSE _process_frr_section(acc, f.frr_data, standard.str, standard.str,
                                           group_title.str),
                 data, items, i + 1)

parse_frr_consolidated(data) == FrrTopLevel(EmptyParse, data, data.dict, 1)

(***************************************************************************)
(* SchemaParser, legacy variant                                            *)
(***************************************************************************)
\* the value with the part at a path of keys and list positions replaced
RECURSIVE Replaced(_, _, _)
Replaced(v, path, new) ==
    IF path = <<>> THEN new
    ELSE IF IsDict(v)
    THEN JDict([k \in DOMAIN v.dict |->
                   IF v.dict[k][1] = Head(path)
                   THEN <<v.dict[k][1], Replaced(v.dict[k][2], Tail(path), new)>>
                   ELSE v.dict[k]])
    ELSE JList([k \in DOMAIN v.list |->
                   IF k = Head(path) THEN Replaced(v.list[k], Tail(path), new)
                   ELSE v.list[k]])

\* the part of a value at a path
RECURSIVE PartAt(_, _)
PartAt(v, path) ==
    IF path = <<>> THEN v
    ELSE IF IsDict(v) THEN PartAt(At(v, Head(path)), Tail(path))
    ELSE PartAt(v.list[Head(path)], Tail(path))

\* lines 701-703 and 789-791: `impact[lvl] = False` for the levels the object
\* lacks, low before moderate before high
RECURSIVE WithLevels(_, _)
WithLevels(imp, levels) ==
    IF levels = <<>> THEN imp
    ELSE WithLevels(IF Has(imp, Head(levels)) THEN imp
                    ELSE JDict(Append(imp.dict, <<Head(levels), JBool(FALSE)>>)),
                    Tail(levels))

\* the record after lines 698-703: an `impact` that is an object is the
\* record's own and gains the levels; any other is replaced by a new object
\* the record does not hold
Completed(rec) ==
    IF Has(rec, k_impact) /\ IsDict(At(rec, k_impact))
    THEN Replaced(rec, <<k_impact>>, WithLevels(At(rec, k_impact), <<k_low, k_moderate, k_high>>))
    ELSE rec

\* the document once the parser has returned
RECURSIVE AfterParse(_, _)
AfterParse(data, touched) ==
    IF touched = <<>> THEN data
    ELSE AfterParse(Replaced(data, Head(touched), Completed(PartAt(data, Head(touched)))),
                    Tail(touched))

Keys(d) == {d.dict[i][1] : i \in DOMAIN d.dict}

\* lines 698-704 and 786-792: the record's own `impact` dict, with the levels
\* it does not name set to False
LegacyImpact(rec) ==
    LET given == Get(rec, k_impact, EmptyDict)
        imp == IF IsDict(given) THEN given ELSE EmptyDict
    IN  [k \in Keys(imp) \cup LevelSet |-> IF Has(imp, k) THEN At(imp, k) ELSE JBool(FALSE)]

\* lines 698-703 and 786-791: `impact = rec.get("impact", {})` is the
\* record's own object, and the levels it lacks are set in it
Touch(acc, path) == [acc EXCEPT !.touched = Append(@, path)]

\* the loop over one section's indicators, from position i
RECURSIVE LegacyIndicators(_, _, _, _, _)
LegacyIndicators(acc, indicators, i, group_id, group_title) ==
    IF i > Len(indicators) THEN acc
    ELSE LET ind == indicators[i]
             indicator_id == Get(ind, k_id, EmptyStr)
             statement == Get(ind, k_statement, EmptyStr)
         IN  LegacyIndicators(
                 IF ~IsDict(ind) THEN acc
                 ELSE IF ~Truthy(indicator_id) \/ ~StartsWith(indicator_id.str, KSI_PREFIX) THEN acc
                 ELSE IF Truthy(Get(ind, k_retired, JBool(FALSE))) THEN acc
                 ELSE IF ~Truthy(statement) THEN acc
                 ELSE Touch(Emit(acc, ind, normalize_control_id(indicator_id.str, KSI_PREFIX),
                                 group_id, group_title, statement, LegacyImpact(ind)),
                            <<k_KSI, group_id, k_indicators, i>>),
                 indicators, i + 1, group_id, group_title)

\* the loop over the sections of data["KSI"], from position i
RECURSIVE LegacyKsiSections(_, _, _)
LegacyKsiSections(acc, sections, i) ==
    IF i > Len(sections) THEN acc
    ELSE LET section_key == sections[i][1]
             section_data == sections[i][2]
             group_title == Or(GetOrNone(section_data, k_name),
                               Or(GetOrNone(section_data, k_theme),
                                  Get(KSI_GROUP_TITLES, section_key, JStr(section_key))))
         IN  LegacyKsiSections(
                 IF ~IsDict(section_data) \/ ~Has(section_data, k_indicators) THEN acc
                 ELSE LegacyIndicators(acc, At(section_data, k_indicators).list, 1,
                                       section_key, group_title.str),
                 sections, i + 1)

parse_ksi_indicators_legacy(data) ==
    IF ~Has(data, k_KSI) THEN EmptyParse
    ELSE LegacyKsiSections(EmptyParse, At(data, k_KSI).dict, 1)

\* the loop over one section's requirements, from position i
RECURSIVE LegacyRequirements(_, _, _, _, _, _)
LegacyRequirements(acc, requirements, i, standard, group_title, section_key) ==
    IF i > Len(requirements) THEN acc
    ELSE LET req == requirements[i]
             req_id == Get(req, k_id, EmptyStr)
             statement == Get(req, k_statement, EmptyStr)
         IN  LegacyRequirements(
                 IF ~IsDict(req) THEN acc
                 ELSE IF ~Truthy(req_id) \/ ~StartsWith(req_id.str, FRR_PREFIX) THEN acc
                 ELSE IF req_id.str \in acc.seen THEN acc
                 ELSE IF ~Truthy(statement) THEN [acc EXCEPT !.seen = @ \cup {req_id.str}]
                 ELSE Touch(Emit([acc EXCEPT !.seen = @ \cup {req_id.str}], req,
                                 normalize_frr_control_id(req_id.str, standard),
                                 standard, group_title, statement, LegacyImpact(req)),
                            <<k_FRR, standard, section_key, k_requirements, i>>),
                 requirements, i + 1, standard, group_title, section_key)

\* the loop over the sections of data["FRR"][standard], from position i
RECURSIVE LegacyFrrSections(_, _, _, _, _)
LegacyFrrSections(acc, sections, i, standard, group_title) ==
    IF i > Len(sections) THEN acc
    ELSE LET section_data == sections[i][2]
         IN  LegacyFrrSections(
                 IF ~IsDict(section_data) \/ ~Has(section_data, k_requirements) THEN acc
                 ELSE LegacyRequirements(acc, At(section_data, k_requirements).list, 1,
                                         standard, group_title, sections[i][1]),
                 sections, i + 1, standard, group_title)

FRMR_DOT == <<"F","R","M","R",".">>

\* re.search(r'FRMR\.([A-Z]{3})\.', filename): the start index of the
\* leftmost match, 0 when there is none
StandardMatch(filename) ==
    LET M == {i \in 1..(Len(filename) - 8) :
                /\ SubSeq(filename, i, i + 4) = FRMR_DOT
                /\ \A j \in (i + 5)..(i + 7) : IsUpper(filename[j])
                /\ filename[i + 8] = "."}
    IN  IF M = {} THEN 0 ELSE CHOOSE i \in M : \A j \in M : i <= j

parse_frr_requirements_legacy(data, filename) ==
    LET m == StandardMatch(filename)
        standard == SubSeq(filename, m + 5, m + 7)
        info == Get(data, k_info, EmptyDict)
        group_title == Get(info, k_name, JStr(standard))
        standard_frr == GetOrNone(At(data, k_FRR), standard)
    IN  IF ~Has(data, k_FRR) THEN EmptyParse
        ELSE IF m = 0 THEN EmptyParse
        ELSE IF ~Truthy(standard_frr) \/ ~IsDict(standard_frr) THEN EmptyParse
        ELSE LegacyFrrSections(EmptyParse, standard_frr.dict, 1, standard, group_title.str)

(***************************************************************************)
(* FormatDetector and version extraction                                   *)
(***************************************************************************)
\* `k in v` for a value v that supports it: a key of a dict, a substring of a
\* string, an element of a list
In(k, v) ==
    CASE IsDict(v) -> Has(v, k)
      [] IsStr(v)  -> Contains(v.str, k)
      [] IsList(v) -> \E i \in DOMAIN v.list : v.list[i] = JStr(k)

\* `k in v` raises TypeError for None, a bool or a number; v[k] raises it for
\* a string or a list
TypeError == "TypeError"
Raises(info, k) == IF IsDict(info) \/ IsStr(info) \/ IsList(info)
                   THEN In(k, info) /\ ~IsDict(info)
                   ELSE TRUE

\* lines 55-60: the marker keys, once info has decided nothing
DetectByMarkers(data) ==
    IF /\ (Has(data, k_FRD) \/ Has(data, k_KSI))
       /\ Keys(data) \cap {k_FRD, k_KSI, k_FRR} # {}
    THEN "consolidated"
    ELSE "legacy"

\* lines 52-54: info.releases
DetectByReleases(data, info) ==
    IF Raises(info, k_releases) THEN TypeError
    ELSE IF In(k_releases, info) /\ IsList(At(info, k_releases)) THEN "legacy"
    ELSE DetectByMarkers(data)

\* the verdict, or TypeError when the info block is not a dict and the
\* lookups of lines 50 and 53 raise
detect_format_version(data) ==
    IF Raises(Get(data, k_info, EmptyDict), k_version) THEN TypeError
    ELSE IF /\ In(k_version, Get(data, k_info, EmptyDict))
            /\ IsStr(At(Get(data, k_info, EmptyDict), k_version))
    THEN "consolidated"
    ELSE DetectByReleases(data, Get(data, k_info, EmptyDict))

k_published_date == <<"p","u","b","l","i","s","h","e","d","_","d","a","t","e">>

\* max(published_releases, key=published_date): the first release whose
\* date no other exceeds
LatestRelease(published_releases) ==
    LET date(r) == Get(r, k_published_date, EmptyStr).str
        i == CHOOSE a \in DOMAIN published_releases :
                 /\ \A b \in DOMAIN published_releases :
                        ~StrLess(date(published_releases[a]), date(published_releases[b]))
                 /\ \A b \in 1..(a - 1) :
                        StrLess(date(published_releases[b]), date(published_releases[a]))
    IN  published_releases[i]

\* the list comprehension [r for r in releases if r.get("published_date")]
RECURSIVE PublishedReleases(_)
PublishedReleases(releases) ==
    IF releases = <<>> THEN <<>>
    ELSE (IF Truthy(GetOrNone(releases[1], k_published_date)) THEN <<releases[1]>> ELSE <<>>)
         \o PublishedReleases(Tail(releases))

\* None when the document names no version
extract_version_from_frmr(data) ==
    IF ~IsDict(data) \/ ~Has(data, k_info) THEN None
    ELSE LET info == At(data, k_info)
             releases == At(info, k_releases)
             published_releases == PublishedReleases(releases.list)
         IN  IF Has(info, k_version) /\ IsStr(At(info, k_version)) THEN At(info, k_version)
             ELSE IF Has(info, k_releases) /\ Truthy(releases)
             THEN IF published_releases # <<>>
                  THEN GetOrNone(LatestRelease(published_releases), k_id)
                  ELSE GetOrNone(releases.list[1], k_id)
             ELSE None

(***************************************************************************)
(* Aggregator: the document loop of main()                                 *)
(***************************************************************************)
CatalogTitlePrefix == <<"F","e","d","R","A","M","P"," ","2","0","x"," ","C","a","t","a","l","o","g"," ","(","v">>
ProfileTitlePrefix == <<"F","e","d","R","A","M","P"," ","2","0","x"," ">>
ProfileTitleSuffix == <<" ","I","m","p","a","c","t"," ","P","r","o","f","i","l","e">>
CatalogUuidPrefix == <<"f","e","d","r","a","m","p","-","2","0","x","-","c","a","t","a","l","o","g","-">>
ProfileUuidPrefix == <<"f","e","d","r","a","m","p","-","2","0","x","-">>
ProfileUuidInfix == <<"-","p","r","o","f","i","l","e","-">>
OSCAL_VERSION == <<"1",".","1",".","2">>
FRMR_KSI_DOT == <<"F","R","M","R",".","K","S","I",".">>
CsvHeader1 == <<"C","o","n","t","r","o","l"," ","P","a","r","t">>
CsvHeader2 == <<"O","S","C","A","L","_","I","D">>
CsvHeader3 == <<"P","a","r","a","m","i","f","i","e","d","P","r","o","s","e">>

\* all_controls, all_control_impacts, all_control_following_info, versions
EmptyAggregate == [all_controls |-> <<>>, all_control_impacts |-> <<>>,
                   all_control_following_info |-> <<>>, versions |-> <<>>]

\* all_controls.extend(...), all_control_impacts.update(...),
\* all_control_following_info.update(...)
Merge(agg, parsed) ==
    [agg EXCEPT !.all_controls = @ \o parsed.controls,
                !.all_control_impacts = Update(@, parsed.impacts),
                !.all_control_following_info = Update(@, parsed.following)]

\* lines 1061-1066: `if frr_controls:` guards the extend and the updates
MergeControls(agg, parsed) == IF parsed.controls # <<>> THEN Merge(agg, parsed) ELSE agg

\* lines 1050-1081: what one fetched document adds
ProcessDocument(agg, filename, data) ==
    IF detect_format_version(data) = "consolidated"
    THEN MergeControls(IF Has(data, k_KSI) THEN Merge(agg, parse_ksi_consolidated(data))
                       ELSE agg,
                       parse_frr_consolidated(data))
    ELSE IF StartsWith(filename, FRMR_KSI_DOT)
         THEN Merge(agg, parse_ksi_indicators_legacy(data))
         ELSE IF Has(data, k_FRR)
              THEN Merge(agg, parse_frr_requirements_legacy(data, filename))
              ELSE agg

\* lines 1045-1048: `if version: versions.append(version)`
WithVersion(agg, version) ==
    IF Truthy(version) THEN [agg EXCEPT !.versions = Append(@, version.str)] ELSE agg

\* lines 1034-1081: the loop over the files, from position i.  A file is
\* [filename, data]; data is None when fetch_frmr_file failed.
RECURSIVE Aggregate(_, _, _)
Aggregate(agg, files, i) ==
    IF i > Len(files) THEN agg
    ELSE Aggregate(
             IF ~Truthy(files[i].data) THEN agg
             ELSE ProcessDocument(
                      WithVersion(agg, extract_version_from_frmr(files[i].data)),
                      files[i].filename, files[i].data),
             files, i + 1)

\* max(versions): the greatest string
MaxString(xs) == xs[CHOOSE i \in DOMAIN xs : \A j \in DOMAIN xs : ~StrLess(xs[i], xs[j])]

\* datetime.now().strftime("%Y-%m-%d") at instant t: the day of the instant
SecondsPerDay == 86400
DateString(t) == <<"d","a","y">> \o IntStr(t \div SecondsPerDay)

(***************************************************************************)
(* Output location                                                         *)
(***************************************************************************)
CatalogFile == "catalog.json"
ProfileFile(level) ==
    CASE level = k_low -> "20x_low_profile.json"
      [] level = k_moderate -> "20x_moderate_profile.json"
      [] level = k_high -> "20x_high_profile.json"
CsvFile == "Requirements_Paramified.csv"
JsonFiles == {CatalogFile} \cup {ProfileFile(l) : l \in LevelSet}
Files == JsonFiles \cup {CsvFile}

\* a file of the output directory: missing, unreadable (not JSON, or not of
\* the expected shape), a JSON artifact, or CSV rows
Missing == [missing |-> TRUE]
Garbage == [garbage |-> TRUE]
JsonOf(artifact) == [json |-> artifact]
CsvOf(rows) == [rows |-> rows]
IsJson(file) == "json" \in DOMAIN file
EmptyDir == [f \in Files |-> Missing]

\* the directory OSCAL/v<version> as it is on disk
DirOf(st, version) == IF version \in DOMAIN st THEN st[version] ELSE EmptyDir

(***************************************************************************)
(* ChangeDetector                                                          *)
(***************************************************************************)
\* the body of an artifact ({"catalog": body} or {"profile": body})
Body(artifact) == IF "catalog" \in DOMAIN artifact THEN artifact.catalog ELSE artifact.profile

\* metadata.pop("published"), metadata.pop("last-modified"); the metadata keys
\* last-modified and oscal-version are spelled with an underscore here
StripMetadata(metadata) ==
    [k \in DOMAIN metadata \ {"published", "last_modified"} |-> metadata[k]]
StripTimestamps(artifact) ==
    IF "catalog" \in DOMAIN artifact
    THEN [catalog |-> [artifact.catalog EXCEPT !.metadata = StripMetadata(@)]]
    ELSE [profile |-> [artifact.profile EXCEPT !.metadata = StripMetadata(@)]]

\* a snapshot read that does not compare the version
ReadSnapshot_any_version(file, version) ==
    IF IsJson(file)
    THEN [timestamps |-> [published |-> Body(file.json).metadata.published,
                          last_modified |-> Body(file.json).metadata.last_modified],
          content |-> StripTimestamps(file.json)]
    ELSE None

\* lines 833-848 and 852-867 for one file: None unless the file exists,
\* parses and carries the version
ReadSnapshot(file, version) ==
    IF IsJson(file) /\ Body(file.json).metadata.version = version
    THEN [timestamps |-> [published |-> Body(file.json).metadata.published,
                          last_modified |-> Body(file.json).metadata.last_modified],
          content |-> StripTimestamps(file.json)]
    ELSE None

\* timestamps and existing_content, keyed by file; a key is absent (None)
\* when its file gave no snapshot
get_existing_file_data(dir, version) == [f \in JsonFiles |-> ReadSnapshot(dir[f], version)]

\* `not existing_timestamps`: no file gave a snapshot
NoTimestamps(existing) == \A f \in JsonFiles : existing[f] = None

TimestampsOf(existing, f) == IF existing[f] = None THEN None ELSE existing[f].timestamps
ContentOf(existing, f) == IF existing[f] = None THEN None ELSE existing[f].content

\* a comparison that reports a change whatever the contents
content_has_changed_always(new_content, existing_content) == TRUE

\* json.dumps(..., sort_keys=True) of both sides differ; records carry no key
\* order, lists keep theirs
content_has_changed(new_content, existing_content) ==
    IF existing_content = None THEN TRUE
    ELSE StripTimestamps(new_content) # existing_content

(***************************************************************************)
(* CatalogBuilder / ProfileBuilder                                         *)
(***************************************************************************)
\* uuid.uuid5(uuid.NAMESPACE_DNS, name): a function of the name alone
Uuid5(name) == [uuid5 |-> name]

\* a builder that reads the clock whether or not a snapshot exists
Published_now(existing_timestamps, now) == now

\* lines 907-910 and 946-949; now is what datetime.now() returns there.  An
\* instant is kept as its whole second, which is all strftime prints.
Published(existing_timestamps, now) ==
    IF existing_timestamps # None THEN existing_timestamps.published ELSE now

\* lines 912-915 and 951-954
LastModified(existing_timestamps, content_changed, now) ==
    IF content_changed \/ existing_timestamps = None THEN now
    ELSE existing_timestamps.last_modified

Metadata(title, version, existing_timestamps, content_changed, now1, now2) ==
    [title |-> title,
     published |-> Published(existing_timestamps, now1),
     last_modified |-> LastModified(existing_timestamps, content_changed, now2),
     version |-> version,
     oscal_version |-> OSCAL_VERSION]

\* sorted(S) for a set of strings
RECURSIVE SortedSet(_)
SortedSet(S) ==
    IF S = {} THEN <<>>
    ELSE LET least == CHOOSE x \in S : \A y \in S : ~StrLess(y, x)
         IN  <<least>> \o SortedSet(S \ {least})

\* the controls appended to groups_dict[gid], in the order of all_controls
RECURSIVE ControlsOf(_, _)
ControlsOf(all_controls, gid) ==
    IF all_controls = <<>> THEN <<>>
    ELSE (IF all_controls[1].group_id = gid THEN <<all_controls[1].control>> ELSE <<>>)
         \o ControlsOf(Tail(all_controls), gid)

\* groups_dict[gid]["title"]: the group_title of the last item of the group
GroupTitle(all_controls, gid) ==
    LET last == CHOOSE i \in DOMAIN all_controls :
                    /\ all_controls[i].group_id = gid
                    /\ \A j \in (i + 1)..Len(all_controls) : all_controls[j].group_id # gid
    IN  all_controls[last].group_title

\* a builder that lists the groups in decreasing order of id
Groups_descending(all_controls) ==
    LET gids == SortedSet({all_controls[i].group_id : i \in DOMAIN all_controls})
    IN  [g \in DOMAIN gids |->
            [id |-> gids[Len(gids) + 1 - g],
             title |-> GroupTitle(all_controls, gids[Len(gids) + 1 - g]),
             controls |-> ControlsOf(all_controls, gids[Len(gids) + 1 - g])]]

\* lines 895-903
Groups(all_controls) ==
    LET gids == SortedSet({all_controls[i].group_id : i \in DOMAIN all_controls})
    IN  [g \in DOMAIN gids |->
            [id |-> gids[g],
             title |-> GroupTitle(all_controls, gids[g]),
             controls |-> ControlsOf(all_controls, gids[g])]]

CatalogUuid(version) == Uuid5(CatalogUuidPrefix \o version)

build_oscal_catalog(all_controls, version, existing_timestamps, content_changed, now1, now2) ==
    [catalog |->
        [uuid |-> CatalogUuid(version),
         metadata |-> Metadata(CatalogTitlePrefix \o version \o <<")">>, version,
                               existing_timestamps, content_changed, now1, now2),
         groups |-> Groups(all_controls)]]

\* str.capitalize()
Capitalize(s) == IF s = <<>> THEN s ELSE <<UpperChar(s[1])>> \o Lower(Tail(s))

\* a builder whose import names the catalog of no version
build_oscal_profile_unversioned(impact_level, control_ids, catalog_uuid, version, existing_timestamps, content_changed, now1, now2) ==
    [profile |->
        [uuid |-> Uuid5(ProfileUuidPrefix \o impact_level \o ProfileUuidInfix \o version),
         metadata |-> Metadata(ProfileTitlePrefix \o Capitalize(impact_level) \o ProfileTitleSuffix,
                               version, existing_timestamps, content_changed, now1, now2),
         imports |-> <<[href |-> <<"#", Uuid5(CatalogUuidPrefix)>>,
                        include_controls |-> <<[with_ids |-> Sorted(control_ids)]>>]>>]]

\* lines 934-973
build_oscal_profile(impact_level, control_ids, catalog_uuid, version, existing_timestamps, content_changed, now1, now2) ==
    [profile |->
        [uuid |-> Uuid5(ProfileUuidPrefix \o impact_level \o ProfileUuidInfix \o version),
         metadata |-> Metadata(ProfileTitlePrefix \o Capitalize(impact_level) \o ProfileTitleSuffix,
                               version, existing_timestamps, content_changed, now1, now2),
         imports |-> <<[href |-> <<"#", catalog_uuid>>,
                        include_controls |-> <<[with_ids |-> Sorted(control_ids)]>>]>>]]

(***************************************************************************)
(* CsvProjector                                                            *)
(***************************************************************************)
Bullet == "<U+2022>"
Newline == <<"\n">>

\* a projector that keeps the whitespace after a final colon
CsvProse_keep_whitespace(control, control_following_info) ==
    IF control.id \in DOMAIN control_following_info
       /\ Truthy(control_following_info[control.id])
    THEN (IF control.parts[1].prose # <<>>
          THEN control.parts[1].prose \o Newline ELSE <<>>)
         \o Join([i \in DOMAIN control_following_info[control.id].list |->
                    <<Bullet, " ">>
                    \o clean_prose(control_following_info[control.id].list[i].str)],
                 Newline)
    ELSE control.parts[1].prose

\* lines 997-1007
CsvProse(control, control_following_info) ==
    LET prose == control.parts[1].prose
        following_info == control_following_info[control.id]
        bullets == [i \in DOMAIN following_info.list |->
                       <<Bullet, " ">> \o clean_prose(following_info.list[i].str)]
        lead == IF prose # <<>> /\ ~EndsWith(RStrip(prose), Newline)
                                /\ ~EndsWith(RStrip(prose), <<":">>)
                THEN prose \o Newline
                ELSE IF prose # <<>> /\ EndsWith(RStrip(prose), <<":">>)
                     THEN RStrip(prose) \o Newline
                     ELSE prose
    IN  IF control.id \in DOMAIN control_following_info /\ Truthy(following_info)
        THEN lead \o Join(bullets, Newline)
        ELSE prose

\* the rows generate_csv writes: the header, then one row per control
generate_csv(all_controls, control_following_info) ==
    <<<<CsvHeader1, CsvHeader2, CsvHeader3>>>>
    \o [i \in DOMAIN all_controls |->
           <<Upper(all_controls[i].control.id),
             all_controls[i].control.id \o SmtSuffix,
             CsvProse(all_controls[i].control, control_following_info)>>]

(***************************************************************************)
(* main(): one publication run                                             *)
(***************************************************************************)
\* lines 1138-1145: the ids of the controls whose impact marks the level, in
\* the order of all_controls
RECURSIVE ImpactControls(_, _, _)
ImpactControls(all_controls, all_control_impacts, lvl) ==
    IF all_controls = <<>> THEN <<>>
    ELSE LET control_id == all_controls[1].control.id
             applies == /\ control_id \in DOMAIN all_control_impacts
                        /\ lvl \in DOMAIN all_control_impacts[control_id]
                        /\ Truthy(all_control_impacts[control_id][lvl])
         IN  (IF applies THEN <<control_id>> ELSE <<>>)
             \o ImpactControls(Tail(all_controls), all_control_impacts, lvl)

\* the datetime.now() calls of a run whose value can reach a file, in program
\* order: published and last-modified of the catalog, then of the low, the
\* moderate and the high profile
NReads == 8
\* the position of an artifact's first read
ReadAt(f) ==
    CASE f = CatalogFile -> 1
      [] f = ProfileFile(k_low) -> 3
      [] f = ProfileFile(k_moderate) -> 5
      [] f = ProfileFile(k_high) -> 7

LevelOfFile(f) == CHOOSE l \in LevelSet : ProfileFile(l) = f

\* the artifact of file f as the builders make it
Build(agg, f, version, existing_timestamps, content_changed, now1, now2) ==
    IF f = CatalogFile
    THEN build_oscal_catalog(agg.all_controls, version, existing_timestamps,
                             content_changed, now1, now2)
    ELSE build_oscal_profile(LevelOfFile(f),
                             ImpactControls(agg.all_controls, agg.all_control_impacts,
                                            LevelOfFile(f)),
                             CatalogUuid(version), version, existing_timestamps,
                             content_changed, now1, now2)

\* lines 1123-1132 and 1152-1156: the verdict for the artifact of file f.  The
\* trial build is made with content_changed=False; its timestamps (now, where
\* it reads the clock) are popped before the comparison.
ContentChanged(agg, f, version, existing, now) ==
    IF NoTimestamps(existing) THEN TRUE
    ELSE content_has_changed(
             Build(agg, f, version, TimestampsOf(existing, f), FALSE, now, now),
             ContentOf(existing, f))

\* lines 1087-1091
RunVersion(agg, now) ==
    IF agg.versions # <<>> THEN MaxString(agg.versions) ELSE DateString(now)

\* lines 1163-1179: the files a run writes
Written(agg, version, existing, changed, reads) ==
    [f \in Files |->
        IF f = CsvFile
        THEN CsvOf(generate_csv(agg.all_controls, agg.all_control_following_info))
        ELSE JsonOf(Build(agg, f, version, TimestampsOf(existing, f), changed[f],
                          reads[ReadAt(f)], reads[ReadAt(f) + 1]))]

(***************************************************************************)
(* The inputs of the model: documents as fetch_frmr_file returns them      *)
(***************************************************************************)
D(kv) == JDict(kv)
S(text) == JStr(text)

t_S == <<"S">>
t_T == <<"T">>
t_M == <<"M">>
t_L == <<"L">>
t_R == <<"R">>
t_F == <<"F">>
t_N == <<"N">>
t_OptionalS == <<"O","p","t","i","o","n","a","l",":"," ","S">>
t_BoldOptionalS == <<"*","*","O","p","t","i","o","n","a","l",":","*","*"," ","S">>
v1 == <<"1">>
v0 == <<"0">>
g_CNA == <<"C","N","A">>
g_ADS == <<"A","D","S">>
g_base == <<"b","a","s","e">>
id_KSI_CNA_01 == <<"K","S","I","-","C","N","A","-","0","1">>
id_KSI_CNA_02 == <<"K","S","I","-","C","N","A","-","0","2">>
id_KSI_CNA_03 == <<"K","S","I","-","C","N","A","-","0","3">>
id_CNA_01 == <<"C","N","A","-","0","1">>
id_FRR_ADS_01 == <<"F","R","R","-","A","D","S","-","0","1">>
f_consolidated == <<"F","R","M","R",".","d","o","c","u","m","e","n","t","a","t","i","o","n",".","j","s","o","n">>
f_legacy_ksi == <<"F","R","M","R",".","K","S","I",".","j","s","o","n">>
f_legacy_ads == <<"F","R","M","R",".","A","D","S",".","j","s","o","n">>
f_legacy_scn == <<"F","R","M","R",".","S","C","N",".","j","s","o","n">>

File(filename, data) == [filename |-> filename, data |-> data]

\* a consolidated document: info.version and one KSI theme, CNA
Consolidated(version, indicators, more) ==
    D(<< <<k_info, D(<< <<k_version, S(version)>> >>)>>,
         <<k_KSI, D(<< <<k_data, D(<< <<g_CNA,
             D(<< <<k_short_name, S(g_CNA)>>, <<k_indicators, D(indicators)>> >>)>> >>)>> >>)>> >>
      \o more)

\* KSI-CNA-01 with a direct statement
Direct(text) == D(<< <<k_name, S(t_N)>>, <<k_statement, S(text)>> >>)
\* KSI-CNA-02, whose statement varies by level, with one guidance item
Varying(lowText) ==
    D(<< <<k_varies_by_level,
           D(<< <<k_low, D(<< <<k_statement, S(lowText)>> >>)>>,
                <<k_moderate, D(<< <<k_statement, S(t_M)>> >>)>> >>)>>,
         <<k_following_information, JList(<<S(t_F)>>)>> >>)

\* a standard ADS with a nested FRR section holding two requirements, the
\* first of which normalizes to the id of KSI-CNA-01
AdsSection ==
    << <<g_ADS, D(<< <<k_FRR, D(<< <<g_base, D(<< <<k_requirements, JList(<<
          D(<< <<k_id, S(id_CNA_01)>>, <<k_statement, S(t_R)>> >>),
          D(<< <<k_id, S(id_FRR_ADS_01)>>, <<k_statement, S(t_R)>> >>) >>)>> >>)>> >>)>> >>)>> >>

DocA == Consolidated(v1, << <<id_KSI_CNA_01, Direct(t_S)>>,
                            <<id_KSI_CNA_02, Varying(t_BoldOptionalS)>> >>, <<>>)
\* DocA with another statement for KSI-CNA-01
DocB == Consolidated(v1, << <<id_KSI_CNA_01, Direct(t_T)>>,
                            <<id_KSI_CNA_02, Varying(t_BoldOptionalS)>> >>, <<>>)
\* DocA with KSI-CNA-02 no longer optional at low
DocC == Consolidated(v1, << <<id_KSI_CNA_01, Direct(t_S)>>,
                            <<id_KSI_CNA_02, Varying(t_L)>> >>, <<>>)
\* DocA with the ADS requirements
DocD == Consolidated(v1, << <<id_KSI_CNA_01, Direct(t_S)>>,
                            <<id_KSI_CNA_02, Varying(t_BoldOptionalS)>> >>, AdsSection)
\* DocA with the one ADS requirement that normalizes to the id of KSI-CNA-01
DocF == Consolidated(v1, << <<id_KSI_CNA_01, Direct(t_S)>>,
                            <<id_KSI_CNA_02, Varying(t_BoldOptionalS)>> >>,
                     << <<g_ADS, D(<< <<k_FRR, D(<< <<g_base, D(<< <<k_requirements, JList(<<
                           D(<< <<k_id, S(id_CNA_01)>>, <<k_statement, S(t_R)>> >>) >>)>> >>)>> >>)>> >>)>> >>)
\* only a retired indicator and one without a statement
DocE == Consolidated(v1, << <<id_KSI_CNA_01, D(<< <<k_retired, JBool(TRUE)>>,
                                                   <<k_statement, S(t_S)>> >>)>>,
                            <<id_KSI_CNA_03, D(<< <<k_name, S(t_N)>> >>)>> >>, <<>>)
Releases(version) == D(<< <<k_releases, JList(<< D(<< <<k_id, S(version)>> >>) >>)>> >>)
LegacyKsiDoc ==
    D(<< <<k_info, Releases(v1)>>,
         <<k_KSI, D(<< <<g_CNA, D(<< <<k_indicators, JList(<<
             D(<< <<k_id, S(id_KSI_CNA_01)>>, <<k_statement, S(t_S)>>,
                  <<k_impact, D(<< <<k_low, JBool(TRUE)>>, <<k_moderate, JBool(TRUE)>> >>)>> >>)
           >>)>> >>)>> >>)>> >>)
LegacyAdsDoc ==
    D(<< <<k_info, Releases(v1)>>,
         <<k_FRR, D(<< <<g_ADS, D(<< <<g_base, D(<< <<k_requirements, JList(<<
             D(<< <<k_id, S(id_FRR_ADS_01)>>, <<k_statement, S(t_R)>>,
                  <<k_impact, D(<< <<k_high, JBool(TRUE)>> >>)>> >>)
           >>)>> >>)>> >>)>> >>)>> >>)
\* a legacy document that is neither a KSI file nor carries FRR
LegacyOtherDoc == D(<< <<k_info, Releases(v0)>> >>)

\* the file lists a run can be given (fetch_frmr_file_list and the fetches)
Inputs == <<
    <<File(f_consolidated, DocA)>>,
    <<File(f_consolidated, DocB)>>,
    <<File(f_consolidated, DocC)>>,
    <<File(f_consolidated, DocD)>>,
    <<File(f_consolidated, DocE)>>,
    <<File(f_consolidated, DocF)>>,
    <<File(f_legacy_ksi, LegacyKsiDoc), File(f_legacy_scn, None),
      File(f_legacy_ads, LegacyAdsDoc), File(f_legacy_scn, LegacyOtherDoc)>>,
    <<>>
>>

\* what the document loop of main() makes of each input
Aggregated == [i \in DOMAIN Inputs |-> Aggregate(EmptyAggregate, Inputs[i], 1)]

(***************************************************************************)
(* Specification of the publication runs                                   *)
(***************************************************************************)
\* the last instant of the model's clock
MaxClock == 2

\* the nondecreasing sequences of n instants in lo..hi: what n successive
\* calls of datetime.now() can return
RECURSIVE NonDecreasing(_, _, _)
NonDecreasing(n, lo, hi) ==
    IF n = 0 THEN {<<>>}
    ELSE UNION {{<<x>> \o s : s \in NonDecreasing(n - 1, x, hi)} : x \in lo..hi}

ReadSeqs == [lo \in 0..MaxClock |-> NonDecreasing(NReads, lo, MaxClock)]

\* which of the reads a run makes: published is read when the artifact has no
\* snapshot, last-modified when it has none or its content changed
Reads(existing, changed) ==
    UNION {(IF TimestampsOf(existing, f) = None THEN {ReadAt(f)} ELSE {})
           \cup (IF changed[f] \/ TimestampsOf(existing, f) = None THEN {ReadAt(f) + 1} ELSE {})
           : f \in JsonFiles}

\* a read that is not made is given the instant of the one before it
Canonical(reads, made, start) ==
    \A k \in 1..NReads :
        k \notin made => reads[k] = (IF k = 1 THEN start ELSE reads[k - 1])

\* what the last step, when it was a run, did: its input, whether it wrote,
\* the version, the snapshot timestamps it read and its verdicts
NotRun == [input |-> 0, wrote |-> FALSE, version |-> <<>>, version_changed |-> FALSE,
           snapshot |-> [f \in JsonFiles |-> None],
           changed |-> [f \in JsonFiles |-> FALSE]]

\* a run that goes on without controls
NoControls_never(agg) == FALSE

\* lines 1083-1085: `if not all_controls`
NoControls(agg) == agg.all_controls = <<>>

\* lines 1163-1183: the files are written; a clock read the run does not make
\* stays at the instant before it
WriteFiles(i, agg, today, version, existing, changed) ==
    \E reads \in ReadSeqs[today] :
        /\ Canonical(reads, Reads(existing, changed), today)
        /\ store' = Put(store, version, Written(agg, version, existing, changed, reads))
        /\ clock' = reads[NReads]
        /\ lastRun' = [input |-> i, wrote |-> TRUE, version |-> version,
                       version_changed |-> NoTimestamps(existing),
                       snapshot |-> [f \in JsonFiles |-> TimestampsOf(existing, f)],
                       changed |-> changed]

\* lines 1114-1156: the verdict on each JSON artifact
Detect(i, agg, today, version, existing) ==
    WriteFiles(i, agg, today, version, existing,
               [f \in JsonFiles |-> ContentChanged(agg, f, version, existing, today)])

\* lines 1105-1112: the output directory of the version and its snapshot
Generate(i, agg, today, version) ==
    Detect(i, agg, today, version,
           get_existing_file_data(DirOf(store, version), version))

\* lines 1083-1091: a run that aggregated no control returns; otherwise the
\* version is the greatest collected or, when none was, today's date
Main(i, agg) ==
    IF NoControls(agg)
    THEN /\ lastRun' = [NotRun EXCEPT !.input = i]
         /\ UNCHANGED <<store, clock>>
    ELSE \E today \in clock..(IF agg.versions = <<>> THEN MaxClock ELSE clock) :
             Generate(i, agg, today, RunVersion(agg, today))

\* main() on the files Inputs[i]
Run(i) == Main(i, Aggregated[i])

RunInit ==
    /\ store = <<>>
    /\ clock = 0
    /\ lastRun = NotRun

Idle == <<>>
OtherInit ==
    /\ indicator = Idle /\ impact = Idle /\ recs = Idle /\ parser = Idle /\ out = Idle
    /\ call = Idle /\ result = Idle
    /\ pending = Idle /\ history = Idle /\ document = Idle

Init == RunInit /\ OtherInit

Next ==
    \E i \in DOMAIN Inputs : Run(i) /\ UNCHANGED <<indicator, impact, recs, parser, out, call, result, pending, history, document>>

Spec == Init /\ [][Next]_vars

(***************************************************************************)
(* Publication runs over an output location that is damaged between runs   *)
(***************************************************************************)
\* the same artifact under another version, as a file left by another release
Retagged(artifact) ==
    IF "catalog" \in DOMAIN artifact
    THEN [catalog |-> [artifact.catalog EXCEPT !.metadata.version = v0]]
    ELSE [profile |-> [artifact.profile EXCEPT !.metadata.version = v0]]

\* the files of a directory that give no snapshot for its version although
\* they exist
Damaged(dir, version) ==
    {f \in JsonFiles : dir[f] # Missing /\ ReadSnapshot(dir[f], version) = None}

\* how many files of a directory may be damaged at a time
MaxDamaged == 1

\* a written catalog or profile becomes unreadable, or is replaced by one that
\* does not carry the version of its directory
Damage(version, f) ==
    /\ version \in DOMAIN store
    /\ ReadSnapshot(store[version][f], version) # None
    /\ Cardinality(Damaged(store[version], version)) < MaxDamaged
    /\ \E file \in {Garbage, JsonOf(Retagged(store[version][f].json))} :
           store' = [store EXCEPT ![version][f] = file]
    /\ lastRun' = NotRun
    /\ UNCHANGED clock

\* the inputs of the runs over a damaged location
DamagedInputs == 1..2

NextDamaged ==
    \/ \E i \in DamagedInputs : Run(i) /\ UNCHANGED <<indicator, impact, recs, parser, out, call, result, pending, history, document>>
    \/ \E version \in DOMAIN store, f \in JsonFiles :
           Damage(version, f) /\ UNCHANGED <<indicator, impact, recs, parser, out, call, result, pending, history, document>>

SpecDamaged == Init /\ [][NextDamaged]_vars

(***************************************************************************)
(* Impact resolution of single records                                     *)
(***************************************************************************)
Absent == [absent |-> TRUE]

\* a dict of the entries that are present, in the order given
RECURSIVE Present(_)
Present(kv) ==
    IF kv = <<>> THEN <<>>
    ELSE (IF kv[1][2] = Absent THEN <<>> ELSE <<kv[1]>>) \o Present(Tail(kv))

\* what a level of varies_by_level can hold
LevelEntries ==
    {Absent,
     D(<< <<k_statement, S(t_S)>> >>),
     D(<< <<k_statement, S(t_OptionalS)>> >>),
     D(<< <<k_statement, S(t_BoldOptionalS)>> >>),
     S(t_OptionalS)}

\* indicator2 of test_parsing_logic.py and KSI-SVC-PRR of its SAMPLE_DATA
t_Low == <<"L","o","w">>
t_Moderate == <<"M","o","d","e","r","a","t","e">>
t_PRR_low == <<"*","*","O","p","t","i","o","n","a","l",":","*","*"," ","P","e","r","s","i","s","t","e","n","t","l","y"," ","r","e","v","i","e","w"," ","p","l","a","n","s",".",".",".">>
t_PRR_moderate == <<"P","e","r","s","i","s","t","e","n","t","l","y"," ","r","e","v","i","e","w"," ","p","l","a","n","s",","," ","p","r","o","c","e","d","u","r","e","s",","," ","a","n","d"," ","t","h","e"," ","s","t","a","t","e"," ","o","f"," ","i","n","f","o","r","m","a","t","i","o","n"," ","r","e","s","o","u","r","c","e","s",".",".",".">>
t_PRR_name == <<"P","r","e","v","e","n","t","i","n","g"," ","R","e","s","i","d","u","a","l"," ","R","i","s","k">>
k_controls == <<"c","o","n","t","r","o","l","s">>
indicator2 ==
    D(<< <<k_varies_by_level,
           D(<< <<k_low, D(<< <<k_statement, S(t_Low)>> >>)>>,
                <<k_moderate, D(<< <<k_statement, S(t_Moderate)>> >>)>> >>)>> >>)
KSI_SVC_PRR ==
    D(<< <<k_name, S(t_PRR_name)>>,
         <<k_varies_by_level,
           D(<< <<k_low, D(<< <<k_statement, S(t_PRR_low)>> >>)>>,
                <<k_moderate, D(<< <<k_statement, S(t_PRR_moderate)>> >>)>> >>)>>,
         <<k_controls, JList(<<S(<<"s","c","-","4">>)>>)>> >>)

\* records with or without varies_by_level (empty when every level is
\* absent), a direct statement and an explicit impact object
IndicatorSamples ==
    {indicator2, KSI_SVC_PRR}
    \cup {D(Present(<< <<k_varies_by_level, varies>>, <<k_statement, statement>>,
                       <<k_impact, old_impact>> >>)) :
            varies \in {Absent} \cup {D(Present(<< <<k_low, lo>>, <<k_moderate, mo>>, <<k_high, hi>> >>)) :
                                        lo \in LevelEntries, mo \in LevelEntries, hi \in LevelEntries},
            statement \in {Absent, S(t_S)},
            old_impact \in {Absent, D(<< <<k_low, JBool(TRUE)>> >>)}}

\* extract_impact_from_indicator(indicator)
Resolve ==
    /\ impact = Idle
    /\ impact' = extract_impact_from_indicator(indicator)
    /\ UNCHANGED <<store, clock, lastRun, indicator, recs, parser, out, call, result, pending, history, document>>

InitImpact ==
    /\ RunInit
    /\ indicator \in IndicatorSamples
    /\ impact = Idle /\ recs = Idle /\ parser = Idle /\ out = Idle
    /\ call = Idle /\ result = Idle
    /\ pending = Idle /\ history = Idle /\ document = Idle

NextImpact == Resolve

SpecImpact == InitImpact /\ [][NextImpact]_vars

(***************************************************************************)
(* The parsers on documents made of a bounded list of records              *)
(***************************************************************************)
\* records with or without an id, a statement and guidance, and records
\* with a statement that are flagged retired or carry an explicit impact
\* object
RecSamples ==
    {D(Present(<< <<k_id, id>>, <<k_statement, statement>>,
                  <<k_following_information, following_info>> >>)) :
        id \in {Absent, S(id_FRR_ADS_01), S(id_KSI_CNA_01)},
        statement \in {Absent, S(t_S), S(t_T)},
        following_info \in {Absent, JList(<<S(t_F)>>)}}
    \cup {D(<< <<k_id, id>>, <<k_statement, S(t_S)>>, extra >>) :
            id \in {S(id_FRR_ADS_01), S(id_KSI_CNA_01)},
            extra \in {<<k_retired, JBool(TRUE)>>,
                       <<k_impact, D(<< <<k_low, JBool(TRUE)>> >>)>>}}

\* the longest list of records of a document
MaxRecs == 2

RecLists == UNION {[1..n -> RecSamples] : n \in 0..MaxRecs}

Parsers == {"parse_ksi_consolidated", "parse_frr_consolidated",
            "parse_ksi_indicators_legacy", "parse_frr_requirements_legacy"}

\* the indicators of a consolidated theme are keyed by id: a list of records
\* is such an object when every record has an id and no two have the same
Keyed(rs) ==
    /\ \A k \in DOMAIN rs : Has(rs[k], k_id)
    /\ \A j, k \in DOMAIN rs : At(rs[j], k_id) = At(rs[k], k_id) => j = k

\* the document of each dialect that holds the records rs
DocOf(p, rs) ==
    CASE p = "parse_ksi_consolidated" ->
            Consolidated(v1, [k \in DOMAIN rs |-> <<At(rs[k], k_id).str, rs[k]>>], <<>>)
      [] p = "parse_frr_consolidated" ->
            D(<< <<k_info, D(<< <<k_version, S(v1)>> >>)>>,
                 <<g_ADS, D(<< <<k_FRR, D(<< <<g_base, D(<< <<k_requirements, JList(rs)>> >>)>> >>)>> >>)>> >>)
      [] p = "parse_ksi_indicators_legacy" ->
            D(<< <<k_info, Releases(v1)>>,
                 <<k_KSI, D(<< <<g_CNA, D(<< <<k_indicators, JList(rs)>> >>)>> >>)>> >>)
      [] p = "parse_frr_requirements_legacy" ->
            D(<< <<k_info, Releases(v1)>>,
                 <<k_FRR, D(<< <<g_ADS, D(<< <<g_base, D(<< <<k_requirements, JList(rs)>> >>)>> >>)>> >>)>> >>)

HasDoc(p, rs) == p = "parse_ksi_consolidated" => Keyed(rs)

\* the three results of a parser
Results(acc) == [controls |-> acc.controls, impacts |-> acc.impacts, following |-> acc.following]

\* the parser applied to a document
Parsed(p, data) ==
    CASE p = "parse_ksi_consolidated" -> parse_ksi_consolidated(data)
      [] p = "parse_frr_consolidated" -> parse_frr_consolidated(data)
      [] p = "parse_ksi_indicators_legacy" -> parse_ksi_indicators_legacy(data)
      [] p = "parse_frr_requirements_legacy" -> parse_frr_requirements_legacy(data, f_legacy_ads)

ParseWith(p, rs) == Results(Parsed(p, DocOf(p, rs)))

Parse(p) ==
    /\ out = Idle
    /\ HasDoc(p, recs)
    /\ parser' = p
    /\ out' = ParseWith(p, recs)
    /\ document' = AfterParse(DocOf(p, recs), Parsed(p, DocOf(p, recs)).touched)
    /\ UNCHANGED <<store, clock, lastRun, indicator, impact, recs, call, result, pending, history>>

InitParse ==
    /\ RunInit
    /\ recs \in RecLists
    /\ indicator = Idle /\ impact = Idle /\ parser = Idle /\ out = Idle
    /\ call = Idle /\ result = Idle
    /\ pending = Idle /\ history = Idle /\ document = Idle

NextParse == \E p \in Parsers : Parse(p)

SpecParse == InitParse /\ [][NextParse]_vars

(***************************************************************************)
(* Single calls of the resolvers, the detector and the normalizers          *)
(***************************************************************************)
t_H == <<"H">>

\* what a level of varies_by_level can hold where its statement is looked up:
\* nothing, an object with a statement of the given text, with an empty
\* statement or with none, a string, a list
StatementEntries(text) ==
    {Absent, D(<< <<k_statement, S(text)>> >>), D(<< <<k_statement, EmptyStr>> >>),
     EmptyDict, S(text), JList(<<>>)}

\* records with or without a direct statement (empty or not) and with or
\* without a varies_by_level mapping
StatementSamples ==
    {D(Present(<< <<k_statement, statement>>, <<k_varies_by_level, varies>> >>)) :
        statement \in {Absent, EmptyStr, S(t_S)},
        varies \in {Absent} \cup
            {D(Present(<< <<k_low, lo>>, <<k_moderate, mo>>, <<k_high, hi>> >>)) :
                lo \in StatementEntries(t_L), mo \in StatementEntries(t_M),
                hi \in StatementEntries(t_H)}}

Call(fn, args) == [fn |-> fn, args |-> args]

StatementCalls ==
    {Call("get_indicator_statement", <<ind, level>>) :
        ind \in StatementSamples, level \in LevelSet}
    \cup {Call("RequirementStatement", <<req>>) : req \in StatementSamples}

\* documents whose info block is missing, null, a string or an object with or
\* without `version` and `releases` of either type, and whose top level has
\* any of the keys FRD, KSI, FRR
t_x == <<"x">>
DetectSamples ==
    {D(Present(<< <<k_info, info>>, <<k_FRD, frd>>, <<k_KSI, ksi>>, <<k_FRR, frr>>,
                  <<g_ADS, EmptyDict>> >>)) :
        info \in {Absent, None, S(t_x)} \cup
            {D(Present(<< <<k_version, version>>, <<k_releases, releases>> >>)) :
                version \in {Absent, S(v1), JNum(1)},
                releases \in {Absent, JList(<<>>), S(t_x)}},
        frd \in {Absent, EmptyDict}, ksi \in {Absent, EmptyDict}, frr \in {Absent, EmptyDict}}

DetectCalls == {Call("detect_format_version", <<data>>) : data \in DetectSamples}

\* raw ids: up to MaxSegments segments joined by dashes, and the ids the
\* docstrings name
MaxSegments == 4
Segments == {<<"K","S","I">>, <<"F","R","R">>, g_CNA, <<"0","1">>, <<"a","_","B">>, <<>>}
id_KSI_CNA_RNT == <<"K","S","I","-","C","N","A","-","R","N","T">>
id_FRR_SCN_TR_01 == <<"F","R","R","-","S","C","N","-","T","R","-","0","1">>
IdSamples ==
    {id_KSI_CNA_RNT, id_FRR_SCN_TR_01}
    \cup {Join(segments, Dash) : segments \in UNION {[1..n -> Segments] : n \in 1..MaxSegments}}

NormalizeCalls ==
    {Call("normalize_control_id", <<raw_id, prefix>>) :
        raw_id \in IdSamples, prefix \in {KSI_PREFIX, <<>>}}
    \cup {Call(fn, <<raw_id, g_ADS>>) :
            raw_id \in IdSamples, fn \in {"normalize_frr_control_id", "ControlIdOfRequirement"}}

Calls == StatementCalls \cup DetectCalls \cup NormalizeCalls

\* the value a normalizer is applied to: the raw id, then its own result
Subject == IF result = Idle THEN call.args[1] ELSE result[Len(result)]

\* get_indicator_statement(indicator, level)
CallIndicatorStatement ==
    /\ call.fn = "get_indicator_statement"
    /\ result = Idle
    /\ result' = <<get_indicator_statement(call.args[1], call.args[2])>>
    /\ UNCHANGED <<store, clock, lastRun, indicator, impact, recs, parser, out, call, pending, history, document>>

\* the statement lookup of _process_single_frr_requirement (lines 582-595)
CallRequirementStatement ==
    /\ call.fn = "RequirementStatement"
    /\ result = Idle
    /\ result' = <<RequirementStatement(call.args[1])>>
    /\ UNCHANGED <<store, clock, lastRun, indicator, impact, recs, parser, out, call, pending, history, document>>

\* detect_format_version(data)
CallDetect ==
    /\ call.fn = "detect_format_version"
    /\ result = Idle
    /\ result' = <<detect_format_version(call.args[1])>>
    /\ UNCHANGED <<store, clock, lastRun, indicator, impact, recs, parser, out, call, pending, history, document>>

\* normalize_control_id(raw_id, prefix), on the raw id and then on the result
CallNormalize ==
    /\ call.fn = "normalize_control_id"
    /\ Len(result) < 2
    /\ result' = Append(result, normalize_control_id(Subject, call.args[2]))
    /\ UNCHANGED <<store, clock, lastRun, indicator, impact, recs, parser, out, call, pending, history, document>>

\* normalize_frr_control_id(frr_id, standard), on the raw id and then on the
\* result
CallNormalizeFrr ==
    /\ call.fn = "normalize_frr_control_id"
    /\ Len(result) < 2
    /\ result' = Append(result, normalize_frr_control_id(Subject, call.args[2]))
    /\ UNCHANGED <<store, clock, lastRun, indicator, impact, recs, parser, out, call, pending, history, document>>

\* the control id _process_single_frr_requirement gives a raw id
CallControlIdOfRequirement ==
    /\ call.fn = "ControlIdOfRequirement"
    /\ result = Idle
    /\ result' = <<ControlIdOfRequirement(call.args[1], call.args[2])>>
    /\ UNCHANGED <<store, clock, lastRun, indicator, impact, recs, parser, out, call, pending, history, document>>

InitCall ==
    /\ RunInit
    /\ indicator = Idle /\ impact = Idle /\ recs = Idle /\ parser = Idle /\ out = Idle
    /\ call \in Calls
    /\ result = Idle
    /\ pending = Idle /\ history = Idle /\ document = Idle

NextCall ==
    \/ CallIndicatorStatement
    \/ CallRequirementStatement
    \/ CallDetect
    \/ CallNormalize
    \/ CallNormalizeFrr
    \/ CallControlIdOfRequirement

SpecCall == InitCall /\ [][NextCall]_vars

(***************************************************************************)
(* The document loop of main() over consolidated documents made of a       *)
(* bounded list of placed records                                          *)
(***************************************************************************)
g_SCN == <<"S","C","N">>
g_more == <<"m","o","r","e">>
g_inner == <<"i","n","n","e","r">>
g_keyed == <<"k","e","y","e","d">>
t_G == <<"G">>

\* a record under the given raw id: without a statement; with the statement
\* S; with the statement T and guidance; with a statement M that holds for
\* the moderate level alone, and other guidance
Bodies(id) ==
    {D(<< <<k_id, S(id)>> >>),
     D(<< <<k_id, S(id)>>, <<k_statement, S(t_S)>> >>),
     D(<< <<k_id, S(id)>>, <<k_statement, S(t_T)>>,
          <<k_following_information, JList(<<S(t_F)>>)>> >>),
     D(<< <<k_id, S(id)>>,
          <<k_varies_by_level, D(<< <<k_moderate, D(<< <<k_statement, S(t_M)>> >>)>> >>)>>,
          <<k_following_information, JList(<<S(t_G)>>)>> >>)}

\* where a document holds a record, in the order the parsers reach them: an
\* indicator of the KSI theme CNA, a requirement of the list of ADS.FRR.base,
\* a requirement of the list of the sub-section ADS.FRR.more.inner, a
\* requirement keyed by its position in ADS.FRR.keyed, a requirement of the
\* list of SCN.FRR.base
Places == <<"ksi", "ads_list", "ads_nested", "ads_keyed", "scn_list">>
Rank(place) == CHOOSE i \in DOMAIN Places : Places[i] = place

\* how many documents a run fetches, and how many records they hold together
MaxDocs == 2
MaxPlaced == 2

PlacedSamples ==
    {[rec |-> rec, doc |-> doc, place |-> Places[i]] :
        rec \in UNION {Bodies(id) : id \in {id_FRR_ADS_01, id_CNA_01, id_KSI_CNA_01}},
        doc \in 1..MaxDocs, i \in DOMAIN Places}

\* the records are listed in the order of processing, the indicators of a
\* theme, an object keyed by id, have different ids, and an entry keyed by
\* position is one that line 544 takes for a requirement
InOrder(ps) ==
    /\ \A j, k \in DOMAIN ps :
          j < k => \/ ps[j].doc < ps[k].doc
                   \/ ps[j].doc = ps[k].doc /\ Rank(ps[j].place) <= Rank(ps[k].place)
    /\ \A j, k \in DOMAIN ps :
          (j # k /\ ps[j].doc = ps[k].doc /\ ps[j].place = "ksi" /\ ps[k].place = "ksi")
              => At(ps[j].rec, k_id) # At(ps[k].rec, k_id)
    /\ \A j \in DOMAIN ps : ps[j].place = "ads_keyed" => Has(ps[j].rec, k_statement)

PlacedLists == {ps \in UNION {[1..n -> PlacedSamples] : n \in 0..MaxPlaced} : InOrder(ps)}

\* the records of a document at a place, in order
RECURSIVE RecsAt(_, _, _)
RecsAt(ps, doc, place) ==
    IF ps = <<>> THEN <<>>
    ELSE (IF ps[1].doc = doc /\ ps[1].place = place THEN <<ps[1].rec>> ELSE <<>>)
         \o RecsAt(Tail(ps), doc, place)

\* the records keyed by id, and keyed by position
ById(rs) == [k \in DOMAIN rs |-> <<At(rs[k], k_id).str, rs[k]>>]
ByPosition(rs) == [k \in DOMAIN rs |-> <<IntStr(k), rs[k]>>]

\* the consolidated document number doc
PlacedDoc(ps, doc) ==
    Consolidated(v1, ById(RecsAt(ps, doc, "ksi")),
        << <<g_ADS, D(<< <<k_FRR, D(<<
               <<g_base, D(<< <<k_requirements, JList(RecsAt(ps, doc, "ads_list"))>> >>)>>,
               <<g_more, D(<< <<g_inner, D(<<
                   <<k_requirements, JList(RecsAt(ps, doc, "ads_nested"))>> >>)>> >>)>>,
               <<g_keyed, D(ByPosition(RecsAt(ps, doc, "ads_keyed")))>> >>)>> >>)>>,
           <<g_SCN, D(<< <<k_FRR, D(<<
               <<g_base, D(<< <<k_requirements, JList(RecsAt(ps, doc, "scn_list"))>> >>)>> >>)>> >>)>> >>)

PlacedFiles(ps) == [doc \in 1..MaxDocs |-> File(f_consolidated, PlacedDoc(ps, doc))]

\* lines 1029-1081 of main(): the loop over the fetched documents
AggregateDocuments ==
    /\ out = Idle
    /\ out' = Aggregate(EmptyAggregate, PlacedFiles(recs), 1)
    /\ UNCHANGED <<store, clock, lastRun, indicator, impact, recs, parser, call, result, pending, history, document>>

InitAggregate ==
    /\ RunInit
    /\ recs \in PlacedLists
    /\ indicator = Idle /\ impact = Idle /\ parser = Idle /\ out = Idle
    /\ call = Idle /\ result = Idle
    /\ pending = Idle /\ history = Idle /\ document = Idle

NextAggregate == AggregateDocuments

SpecAggregate == InitAggregate /\ [][NextAggregate]_vars

(***************************************************************************)
(* parse_frr_consolidated over one requirement at a chosen nesting depth   *)
(***************************************************************************)
\* the deepest nesting of dict-keyed sub-sections
MaxDepth == 3

\* depth dict-keyed sub-sections around a holder
RECURSIVE Nested(_, _)
Nested(holder, depth) ==
    IF depth = 0 THEN holder ELSE D(<< <<g_base, Nested(holder, depth - 1)>> >>)

\* what holds the requirement: a `requirements` list, or an object whose
\* values are requirements keyed by id
Endings == {"list", "keyed"}
Holder(req, ending) ==
    IF ending = "list" THEN D(<< <<k_requirements, JList(<<req>>)>> >>)
    ELSE D(<< <<id_FRR_ADS_01, req>> >>)

\* where the FRR structure of the standard is: data["ADS"]["FRR"],
\* data["FRR"], data["ADS"]["data"]["FRR"]
Tops == {"standard", "frr", "data"}
NestedDoc(top, frr_data) ==
    D(<< <<k_info, D(<< <<k_version, S(v1)>> >>)>> >>
      \o CASE top = "standard" -> << <<g_ADS, D(<< <<k_FRR, frr_data>> >>)>> >>
           [] top = "frr" -> << <<k_FRR, frr_data>> >>
           [] top = "data" -> << <<g_ADS, D(<< <<k_data, D(<< <<k_FRR, frr_data>> >>)>> >>)>> >>)

\* requirements with and without an id, a statement, guidance, the retired
\* flag
NestedSamples ==
    {D(Present(<< id, statement, following, retired >>)) :
        id \in {<<k_id, v>> : v \in {Absent, S(id_FRR_ADS_01)}},
        statement \in {<<k_statement, v>> : v \in {Absent, S(t_S), EmptyStr}},
        following \in {<<k_following_information, v>> : v \in {Absent, JList(<<S(t_F)>>)}},
        retired \in {<<k_retired, v>> : v \in {Absent, JBool(TRUE)}}}

Nestings == [req : NestedSamples, depth : 0..MaxDepth, ending : Endings, top : Tops]

\* the document of a nesting
NestingDoc(n) == NestedDoc(n.top, Nested(Holder(n.req, n.ending), n.depth))

ParseNested ==
    /\ out = Idle
    /\ out' = Results(parse_frr_consolidated(NestingDoc(recs)))
    /\ UNCHANGED <<store, clock, lastRun, indicator, impact, recs, parser, call, result, pending, history, document>>

InitNested ==
    /\ RunInit
    /\ recs \in Nestings
    /\ indicator = Idle /\ impact = Idle /\ parser = Idle /\ out = Idle
    /\ call = Idle /\ result = Idle
    /\ pending = Idle /\ history = Idle /\ document = Idle

NextNested == ParseNested

SpecNested == InitNested /\ [][NextNested]_vars

(***************************************************************************)
(* clean_prose alone, and a statement taken through parse_ksi_consolidated *)
(* and generate_csv                                                        *)
(***************************************************************************)
\* texts of up to MaxPieces pieces: bold markers, the marker word, a space,
\* a word, an underscore
MaxPieces == 5
ProsePieces == {Stars, OptionalMarker, <<" ">>, <<"a","b">>, <<"_">>}
t_BoldOptionalDoX == BoldOptionalMarker \o <<" ","d","o"," ","X">>
t_my_var_name == <<"m","y","_","v","a","r","_","n","a","m","e">>
ProseTexts ==
    {t_BoldOptionalDoX, t_my_var_name}
    \cup {Join(pieces, <<>>) : pieces \in UNION {[1..n -> ProsePieces] : n \in 0..MaxPieces}}

\* statements of up to MaxChars characters: a letter, a colon, a space, a
\* double quote
MaxChars == 4
CsvTexts == UNION {[1..n -> {"S", ":", " ", "\""}] : n \in 1..MaxChars}

\* no guidance, an empty list, one item, two items of which one is emphasised
t__ab_ == <<"_","a","b","_">>
FollowingSamples == {Absent, JList(<<>>), JList(<<S(t_F)>>), JList(<<S(t_F), S(t__ab_)>>)}

ProseCalls ==
    {Call("clean_prose", <<text>>) : text \in ProseTexts}
    \cup {Call("generate_csv", <<text, following>>) :
            text \in CsvTexts, following \in FollowingSamples}
    \cup {Call("generate_csv", <<text, Absent>>) : text \in ProseTexts \ {<<>>}}

\* a consolidated document of the one indicator KSI-CNA-01
StatementDoc(statement, following) ==
    Consolidated(v1, << <<id_KSI_CNA_01,
        D(Present(<< <<k_statement, S(statement)>>,
                     <<k_following_information, following>> >>))>> >>, <<>>)

\* what main() hands to generate_csv (line 1178) and the rows it writes
Projected(parsed) ==
    [controls |-> parsed.controls, following |-> parsed.following,
     rows |-> generate_csv(parsed.controls, parsed.following)]

\* clean_prose(text)
CallCleanProse ==
    /\ call.fn = "clean_prose"
    /\ result = Idle
    /\ result' = <<clean_prose(call.args[1])>>
    /\ UNCHANGED <<store, clock, lastRun, indicator, impact, recs, parser, out, call, pending, history, document>>

\* parse_ksi_consolidated(data), then generate_csv on what it returned
CallGenerateCsv ==
    /\ call.fn = "generate_csv"
    /\ result = Idle
    /\ result' = <<Projected(parse_ksi_consolidated(StatementDoc(call.args[1], call.args[2])))>>
    /\ UNCHANGED <<store, clock, lastRun, indicator, impact, recs, parser, out, call, pending, history, document>>

InitProse ==
    /\ RunInit
    /\ indicator = Idle /\ impact = Idle /\ recs = Idle /\ parser = Idle /\ out = Idle
    /\ call \in ProseCalls
    /\ result = Idle
    /\ pending = Idle /\ history = Idle /\ document = Idle

NextProse == CallCleanProse \/ CallGenerateCsv

SpecProse == InitProse /\ [][NextProse]_vars

(***************************************************************************)
(* Two runs of main() on one output location at a time.  A run reads the   *)
(* snapshot and builds its artifacts (lines 1105-1158), then writes its    *)
(* files one by one (lines 1163-1179); nothing locks the location between  *)
(* the two.  The builds of one run read the clock within one second.       *)
(***************************************************************************)
Procs == {"run1", "run2"}
\* the runs publish DocA or DocB, both of version v1
RaceInputs == {i \in DOMAIN Inputs : Inputs[i] \in {<<File(f_consolidated, DocA)>>,
                                                    <<File(f_consolidated, DocB)>>}}
\* lines 1165-1179: the order in which the files are written
WriteOrder == <<CatalogFile, ProfileFile(k_low), ProfileFile(k_moderate),
                ProfileFile(k_high), CsvFile>>

\* how many runs are started in all
MaxRuns == 2

NoHistory == [first |-> <<>>, overlapped |-> FALSE, started |-> 0]

\* lines 1119-1158: the artifacts are built; the run has every file to write
BuildAll(p, agg, now, version, existing, changed) ==
    /\ pending' = [pending EXCEPT ![p] =
           [version |-> version, left |-> WriteOrder,
            files |-> Written(agg, version, existing, changed, [k \in 1..NReads |-> now])]]
    /\ clock' = now
    /\ history' = [history EXCEPT !.overlapped = @ \/ \E q \in Procs \ {p} : pending[q] # Idle,
                                  !.started = @ + 1]

\* lines 1114-1156: the verdicts
DetectAll(p, agg, now, version, existing) ==
    BuildAll(p, agg, now, version, existing,
             [f \in JsonFiles |-> ContentChanged(agg, f, version, existing, now)])

\* lines 1105-1112: the snapshot of the version's directory
ReadAll(p, agg, now, version) ==
    DetectAll(p, agg, now, version, get_existing_file_data(DirOf(store, version), version))

\* a run starts at an instant now, reads the snapshot and builds
StartRun(p, i) ==
    /\ pending[p] = Idle
    /\ history.started < MaxRuns
    /\ \E now \in clock..MaxClock :
           ReadAll(p, Aggregated[i], now, RunVersion(Aggregated[i], now))
    /\ UNCHANGED <<store, lastRun, indicator, impact, recs, parser, out, call, result, document>>

\* the first `published` written to a file of a version stays on record
Recorded(first, version, f, file) ==
    IF f \in JsonFiles /\ <<version, f>> \notin DOMAIN first
    THEN Put(first, <<version, f>>, Body(file.json).metadata.published)
    ELSE first

\* lines 1165-1179: the run writes its next file, and ends after the last
WriteNext(p) ==
    /\ pending[p] # Idle
    /\ store' = Put(store, pending[p].version,
                    [DirOf(store, pending[p].version) EXCEPT
                        ![Head(pending[p].left)] = pending[p].files[Head(pending[p].left)]])
    /\ history' = [history EXCEPT !.first =
           Recorded(@, pending[p].version, Head(pending[p].left),
                    pending[p].files[Head(pending[p].left)])]
    /\ pending' = [pending EXCEPT ![p] =
           IF Len(pending[p].left) = 1 THEN Idle ELSE [@ EXCEPT !.left = Tail(@)]]
    /\ UNCHANGED <<clock, lastRun, indicator, impact, recs, parser, out, call, result, document>>

InitRace ==
    /\ RunInit
    /\ indicator = Idle /\ impact = Idle /\ recs = Idle /\ parser = Idle /\ out = Idle
    /\ call = Idle /\ result = Idle
    /\ pending = [p \in Procs |-> Idle]
    /\ document = Idle
    /\ history = NoHistory

NextRace ==
    \/ \E p \in Procs, i \in RaceInputs : StartRun(p, i)
    \/ \E p \in Procs : WriteNext(p)

SpecRace == InitRace /\ [][NextRace]_vars

(***************************************************************************)
(* Properties of the publication runs                                      *)
(***************************************************************************)
\* the metadata of a stored catalog or profile
Meta(file) == Body(file.json).metadata
\* the directory the last run wrote
LastDir == store[lastRun.version]
\* the instants a step can have read from the clock
Instants == clock..clock'

\* C1: across runs for the same version, the published timestamp of the
\* stored catalog and of each stored profile is never changed by a later run,
\* whether or not the content changed.
C1_PublishedFixed ==
    [][\A version \in DOMAIN store : \A f \in JsonFiles :
          IsJson(store[version][f]) =>
              /\ IsJson(store'[version][f])
              /\ Meta(store'[version][f]).published = Meta(store[version][f]).published]_vars

\* a later run found the catalog changed, at a later instant than its first
\* publication, and the stored published is still the one it read
C1_Witness ==
    /\ lastRun.wrote /\ ~lastRun.version_changed
    /\ lastRun.changed[CatalogFile]
    /\ Meta(LastDir[CatalogFile]).published = lastRun.snapshot[CatalogFile].published
    /\ Meta(LastDir[CatalogFile]).last_modified > Meta(LastDir[CatalogFile]).published

\* C2: in a run against an existing snapshot of the same version, an artifact
\* gets last-modified set to a current instant if and only if its content
\* without the two timestamps differs from the snapshot's; when it is equal
\* both timestamps are the snapshot's, so that a re-run on the same input
\* rewrites identical files.
C2_LastModifiedIffChanged ==
    [][(lastRun'.wrote /\ ~lastRun'.version_changed) =>
          LET version == lastRun'.version
          IN  /\ \A f \in JsonFiles :
                    LET old == store[version][f]
                        new == store'[version][f]
                        differs == StripTimestamps(new.json) # StripTimestamps(old.json)
                    IN  IsJson(old) =>
                          /\ lastRun'.changed[f] <=> differs
                          /\ differs => Meta(new).last_modified \in Instants
                          /\ ~differs => /\ Meta(new).published = Meta(old).published
                                         /\ Meta(new).last_modified = Meta(old).last_modified
              /\ (lastRun.wrote /\ lastRun.input = lastRun'.input) => store' = store]_vars

\* a re-run in which one artifact changed and got a later last-modified and
\* another did not and kept its own
C2_Witness ==
    /\ lastRun.wrote /\ ~lastRun.version_changed
    /\ \E f, g \in JsonFiles :
          /\ lastRun.changed[f]
          /\ Meta(LastDir[f]).last_modified > lastRun.snapshot[f].last_modified
          /\ ~lastRun.changed[g]
          /\ Meta(LastDir[g]).last_modified = lastRun.snapshot[g].last_modified
          /\ Meta(LastDir[g]).last_modified < clock

\* C3: an artifact published for a version that had no snapshot has
\* last-modified equal to published in the written file, for the catalog and
\* for each of the three profiles.
C3_LastModifiedEqualsPublished ==
    (lastRun.wrote /\ lastRun.version_changed) =>
        \A f \in JsonFiles :
            Meta(LastDir[f]).last_modified = Meta(LastDir[f]).published

\* C5: a run whose documents produce no control leaves the output location
\* exactly as it was: no file is written or created.
C5_NoControlsNoWrite ==
    [][(lastRun'.input # 0 /\ Aggregated[lastRun'.input].all_controls = <<>>) =>
          store' = store]_vars

\* a run without controls has ended over an output location that holds files
C5_Witness ==
    /\ lastRun.input # 0
    /\ Aggregated[lastRun.input].all_controls = <<>>
    /\ ~lastRun.wrote
    /\ store # <<>>

\* the control ids of a sequence of aggregated controls
IdsOf(all_controls) == [i \in DOMAIN all_controls |-> all_controls[i].control.id]
\* the control ids of a written catalog, group after group
RECURSIVE CatalogIds(_)
CatalogIds(groups) ==
    IF groups = <<>> THEN <<>>
    ELSE [i \in DOMAIN groups[1].controls |-> groups[1].controls[i].id]
         \o CatalogIds(Tail(groups))
NoDuplicates(xs) == \A i, j \in DOMAIN xs : xs[i] = xs[j] => i = j

\* C7: in the aggregated control set of a run and in the catalog built from
\* it, every control id occurs at most once.
C7_ControlIdsUnique ==
    lastRun.wrote =>
        /\ NoDuplicates(IdsOf(Aggregated[lastRun.input].all_controls))
        /\ NoDuplicates(CatalogIds(LastDir[CatalogFile].json.catalog.groups))

\* the with-ids list of a stored profile
WithIds(file) == file.json.profile.imports[1].include_controls[1].with_ids
\* the ids of the aggregated set whose impact entry marks the level
Applicable(agg, level) ==
    {id \in Range(IdsOf(agg.all_controls)) :
        /\ id \in DOMAIN agg.all_control_impacts
        /\ agg.all_control_impacts[id][level] = JBool(TRUE)}

\* C8: the with-ids list of the profile of each level is the sorted,
\* duplicate-free list of exactly the control ids whose impact entry marks the
\* level true.
C8_WithIdsSortedSet ==
    lastRun.wrote =>
        \A level \in LevelSet :
            WithIds(LastDir[ProfileFile(level)])
                = SortedSet(Applicable(Aggregated[lastRun.input], level))

(***************************************************************************)
(* Properties of the runs over a damaged output location                   *)
(***************************************************************************)
\* a file that exists and cannot be parsed, or does not carry the version
Unreadable(file, version) ==
    file = Garbage \/ (IsJson(file) /\ Meta(file).version # version)

\* C4: a run that finds a written catalog or profile unreadable, or without
\* its version, does not abort; it writes that artifact with fresh published
\* and last-modified, and the other artifacts keep their published and get
\* last-modified by their own content.
C4_UnreadableSnapshot ==
    [][lastRun'.wrote =>
          LET version == lastRun'.version
              dir == DirOf(store, version)
          IN  \A f \in JsonFiles :
                Unreadable(dir[f], version) =>
                  /\ IsJson(store'[version][f])
                  /\ Meta(store'[version][f]).version = version
                  /\ Meta(store'[version][f]).published \in Instants
                  /\ Meta(store'[version][f]).last_modified \in Instants
                  /\ \A g \in JsonFiles :
                        (IsJson(dir[g]) /\ ~Unreadable(dir[g], version)) =>
                            LET old == dir[g]
                                new == store'[version][g]
                                differs == StripTimestamps(new.json) # StripTimestamps(old.json)
                            IN  /\ Meta(new).published = Meta(old).published
                                /\ differs => Meta(new).last_modified \in Instants
                                /\ ~differs => Meta(new).last_modified = Meta(old).last_modified]_vars

\* a run found a snapshot for some artifacts and none for another, which it
\* wrote with a later published than theirs
C4_Witness ==
    /\ lastRun.wrote /\ ~lastRun.version_changed
    /\ \E f, g \in JsonFiles :
          /\ lastRun.snapshot[f] = None
          /\ lastRun.snapshot[g] # None
          /\ ~lastRun.changed[g]
          /\ Meta(LastDir[g]).published = lastRun.snapshot[g].published
          /\ Meta(LastDir[g]).last_modified = lastRun.snapshot[g].last_modified
          /\ Meta(LastDir[f]).published > Meta(LastDir[g]).last_modified

(***************************************************************************)
(* Properties of the impact resolution                                     *)
(***************************************************************************)
\* the varies_by_level mapping of the record, when it has one
HasMapping == Has(indicator, k_varies_by_level) /\ IsDict(At(indicator, k_varies_by_level))
Mapping == At(indicator, k_varies_by_level)
\* the level's own statement text carries the marker `Optional:`
Marked(level) == Contains(LevelStatement(At(Mapping, level)).str, OptionalMarker)

\* C9: for a record with a varies_by_level mapping, a level resolves to false
\* when it is not a key of the mapping or its own statement contains
\* `Optional:`, and to true otherwise.
C9_LevelByOwnText ==
    (impact # Idle /\ HasMapping) =>
        \A level \in LevelSet :
            impact[level] = JBool(Has(Mapping, level) /\ ~Marked(level))

C11_DirectStatementAllLevels ==
    (/\ impact # Idle
     /\ Truthy(GetOrNone(indicator, k_statement))
     /\ ~Has(indicator, k_varies_by_level))
        => \A level \in LevelSet : impact[level] = JBool(TRUE)

\* a record with a direct statement, no mapping and an impact object that
\* names low alone has been resolved
C11_Witness ==
    /\ impact # Idle
    /\ Truthy(GetOrNone(indicator, k_statement))
    /\ ~Has(indicator, k_varies_by_level)
    /\ Has(indicator, k_impact)
    /\ ~Has(At(indicator, k_impact), k_high)

(***************************************************************************)
(* Properties of the parsers                                               *)
(***************************************************************************)
\* the list without its k-th record
Without(rs, k) == SubSeq(rs, 1, k - 1) \o SubSeq(rs, k + 1, Len(rs))

\* the record has no id, or no statement the parser can resolve
Malformed(p, rec) ==
    \/ ~Truthy(Get(rec, k_id, EmptyStr))
    \/ IF p \in {"parse_ksi_consolidated", "parse_ksi_indicators_legacy"}
       THEN ~Truthy(get_indicator_statement(rec, k_moderate))
       ELSE ~Truthy(RequirementStatement(rec))

\* C6: a record without an id or without a statement is skipped on its own:
\* the controls, impact entries and following-info entries of the document
\* are those of the document without that record.
C6_SkippedIndividually ==
    out # Idle =>
        \A k \in DOMAIN recs :
            (Malformed(parser, recs[k]) /\ HasDoc(parser, Without(recs, k))) =>
                out = ParseWith(parser, Without(recs, k))

LegacyParsers == {"parse_ksi_indicators_legacy", "parse_frr_requirements_legacy"}

\* the consolidated parser of the same kind of record
Counterpart(p) ==
    IF p = "parse_ksi_indicators_legacy" THEN "parse_ksi_consolidated"
    ELSE "parse_frr_consolidated"

\* C12: the impact entry a legacy parser records for a record is the one the
\* consolidated parser of the same kind records for that record.
C12_DialectIndependentImpact ==
    (out # Idle /\ parser \in LegacyParsers /\ HasDoc(Counterpart(parser), recs)) =>
        \A control_id \in DOMAIN out.impacts \cap DOMAIN ParseWith(Counterpart(parser), recs).impacts :
            out.impacts[control_id] = ParseWith(Counterpart(parser), recs).impacts[control_id]

\* the record is flagged retired
Retired(rec) == IsDict(rec) /\ Truthy(Get(rec, k_retired, JBool(FALSE)))

\* C14: nothing in a parser's output derives from a record flagged retired:
\* the controls, impact entries and following-info entries are those of the
\* document without that record, for indicators and requirements alike.
C14_RetiredSkipped ==
    out # Idle =>
        \A k \in DOMAIN recs :
            (Retired(recs[k]) /\ HasDoc(parser, Without(recs, k))) =>
                out = ParseWith(parser, Without(recs, k))

(***************************************************************************)
(* Properties of single calls                                              *)
(***************************************************************************)
\* the first non-empty statement of the levels in the order given, "" when
\* no level has one
FirstStatement(varies, order) ==
    LET found == {i \in DOMAIN order :
                    Has(varies, order[i]) /\ Truthy(LevelStatement(At(varies, order[i])))}
    IN  IF found = {} THEN EmptyStr
        ELSE LevelStatement(At(varies, order[CHOOSE i \in found : \A j \in found : i <= j]))

\* the record of the call has no direct statement and has a mapping
OnlyVarying(rec) ==
    /\ ~Truthy(Get(rec, k_statement, EmptyStr))
    /\ Has(rec, k_varies_by_level)

\* C13: for a record without a direct statement and with a varies_by_level
\* mapping the statement is the first non-empty one of the requested level,
\* then moderate, low, high (for a requirement: moderate, low, high); an
\* empty statement under the requested level does not stop the search.
C13_FirstNonEmptyStatement ==
    (result # Idle /\ call.fn \in {"get_indicator_statement", "RequirementStatement"}
        /\ OnlyVarying(call.args[1])) =>
        result[1] = FirstStatement(At(call.args[1], k_varies_by_level),
                                   IF call.fn = "get_indicator_statement"
                                   THEN <<call.args[2]>> \o FallbackOrder
                                   ELSE FallbackOrder)

\* the field of the info block, None when there is no such field or the
\* info block is not an object
InfoField(data, k) ==
    IF Has(data, k_info) /\ IsDict(At(data, k_info)) THEN GetOrNone(At(data, k_info), k)
    ELSE None

\* C15: the detector never raises and returns the verdict of the first rule
\* that matches: info.version is a string, consolidated; else info.releases
\* is a list, legacy; else one of FRD, KSI, FRR at the top level,
\* consolidated; otherwise legacy.
C15_FirstMatchingRule ==
    (result # Idle /\ call.fn = "detect_format_version") =>
        result[1] = IF IsStr(InfoField(call.args[1], k_version)) THEN "consolidated"
                    ELSE IF IsList(InfoField(call.args[1], k_releases)) THEN "legacy"
                    ELSE IF Keys(call.args[1]) \cap {k_FRD, k_KSI, k_FRR} # {} THEN "consolidated"
                    ELSE "legacy"

Normalizers == {"normalize_control_id", "normalize_frr_control_id"}

\* C16: normalizing the result of a normalization, with the same prefix or
\* standard, returns it unchanged.
C16_Idempotent ==
    (call.fn \in Normalizers /\ Len(result) = 2) => result[2] = result[1]

\* a raw id that starts with the prefix twice has been normalized twice
C16_Witness ==
    /\ call.fn \in Normalizers
    /\ Len(result) = 2
    /\ StartsWith(call.args[1], KSI_PREFIX \o KSI_PREFIX)
    /\ result[1] # call.args[1]

\* the prefix a normalizer strips
PrefixOf(c) == IF c.fn = "normalize_control_id" THEN c.args[2] ELSE FRR_PREFIX

\* the dash-separated segments of the raw id after the prefix
SegmentsAfterPrefix(c) == Split(From(c.args[1], Len(PrefixOf(c))), "-")

\* C17: for an id that starts with the prefix and has two or more
\* dash-separated segments after it, the result has exactly those segments,
\* each lowercased, in their order; KSI-CNA-RNT gives cna-rnt, KSI-CNA-01
\* gives cna-01, FRR-SCN-TR-01 gives scn-tr-01.
C17_AllSegmentsKept ==
    (/\ call.fn \in Normalizers
     /\ result # Idle
     /\ StartsWith(call.args[1], PrefixOf(call))
     /\ Len(SegmentsAfterPrefix(call)) >= 2)
        => /\ Len(Split(result[1], "-")) = Len(SegmentsAfterPrefix(call))
           /\ \A i \in DOMAIN SegmentsAfterPrefix(call) :
                  Split(result[1], "-")[i] = Lower(SegmentsAfterPrefix(call)[i])
           /\ (call.args = <<id_KSI_CNA_RNT, KSI_PREFIX>>) =>
                  result[1] = <<"c","n","a","-","r","n","t">>
           /\ (call.args = <<id_KSI_CNA_01, KSI_PREFIX>>) =>
                  result[1] = <<"c","n","a","-","0","1">>
           /\ (call.fn = "normalize_frr_control_id" /\ call.args[1] = id_FRR_SCN_TR_01) =>
                  result[1] = <<"s","c","n","-","t","r","-","0","1">>

\* FRR-SCN-TR-01 has been normalized
C17_Witness ==
    /\ call.fn = "normalize_frr_control_id"
    /\ call.args[1] = id_FRR_SCN_TR_01
    /\ result # Idle

FrrNormalizers == {"normalize_frr_control_id", "ControlIdOfRequirement"}

\* a raw id without the FRR- prefix has been given its control id
Unprefixed == /\ call.fn \in FrrNormalizers
              /\ result # Idle
              /\ ~StartsWith(call.args[1], FRR_PREFIX)

\* the last dash-delimited segment of the raw id
LastSegment(raw_id) == Split(raw_id, "-")[Len(Split(raw_id, "-"))]

\* C18, as stated: for an FRR raw id without the FRR- prefix the control id
\* is the standard, a dash and the last dash-delimited segment of the raw id,
\* both lowercased, whatever the number of segments.
C18_StandardAndLastSegment ==
    Unprefixed => result[1] = Lower(call.args[2]) \o Dash \o Lower(LastSegment(call.args[1]))

\* C18, amended: for an FRR raw id without the FRR- prefix, a raw id of two
\* or more dash-delimited segments becomes all of them, lowercased and joined
\* by dashes; a raw id of one segment becomes the standard, a dash and the
\* id, lowercased, in normalize_frr_control_id, and the lowercased id with
\* its underscores turned into dashes in the consolidated parser, which hands
\* ids without the prefix to normalize_control_id with an empty prefix.
C18_FallbackForOneSegment ==
    Unprefixed =>
        result[1] = IF Len(Split(call.args[1], "-")) >= 2
                    THEN Join(LowerAll(Split(call.args[1], "-")), Dash)
                    ELSE IF call.fn = "normalize_frr_control_id"
                         THEN Lower(call.args[2]) \o Dash \o Lower(call.args[1])
                         ELSE ReplaceChar(Lower(call.args[1]), "_", "-")

\* CNA-01 has been normalized under the standard ADS: cna-01, not ads-01
C18_Witness ==
    /\ Unprefixed
    /\ call.args = <<id_CNA_01, g_ADS>>
    /\ result[1] = <<"c","n","a","-","0","1">>

(***************************************************************************)
(* Properties of the document loop                                         *)
(***************************************************************************)
FrrPlaces == {"ads_list", "ads_nested", "ads_keyed", "scn_list"}

\* the positions of the requirements under a raw id, in the order of
\* processing, and those of them that have a statement
Occurrences(raw) ==
    {j \in DOMAIN recs : recs[j].place \in FrrPlaces /\ At(recs[j].rec, k_id).str = raw}
WithStatement(raw) == {j \in Occurrences(raw) : Truthy(RequirementStatement(recs[j].rec))}
Earliest(js) == CHOOSE j \in js : \A k \in js : j <= k
Latest(js) == CHOOSE j \in js : \A k \in js : k <= j

\* the controls made from requirements under a raw id: the raw ids of the
\* listed records have different control ids, and the controls of indicators
\* are in the group of the theme
EmittedFor(raw) ==
    {i \in DOMAIN out.all_controls :
        /\ out.all_controls[i].group_id # g_CNA
        /\ out.all_controls[i].control.id
               \in {ControlIdOfRequirement(raw, g) : g \in {g_ADS, g_SCN}}}

\* C19: over all standards, nested sub-sections and documents of one run, at
\* most one control is emitted per raw requirement id, and it is made from the
\* first occurrence that has a statement.
C19_OneControlPerRawId ==
    out # Idle =>
        \A raw \in {At(recs[j].rec, k_id).str : j \in DOMAIN recs} :
            /\ Cardinality(EmittedFor(raw)) <= 1
            /\ \A i \in EmittedFor(raw) :
                   out.all_controls[i].control.parts[1].prose =
                       clean_prose(RequirementStatement(recs[Earliest(WithStatement(raw))].rec).str)

\* the control emitted last under a control id
LastControl(cid) ==
    out.all_controls[Latest({i \in DOMAIN out.all_controls :
                                 out.all_controls[i].control.id = cid})].control

\* the record a control was made from, up to its id: the listed records under
\* one id have different statements
SourceOf(control) ==
    CHOOSE rec \in Bodies(id_CNA_01) :
        /\ Truthy(RequirementStatement(rec))
        /\ clean_prose(RequirementStatement(rec).str) = control.parts[1].prose

\* C20: after the loop the impact entry and the following-info entry of every
\* control id are those of the last record emitted under that id: its impact,
\* and its guidance list, or no entry when it has none.
C20_LastRecordWins ==
    out # Idle =>
        \A cid \in Range(IdsOf(out.all_controls)) :
            /\ out.all_control_impacts[cid] =
                   extract_impact_from_indicator(SourceOf(LastControl(cid)))
            /\ IF Has(SourceOf(LastControl(cid)), k_following_information)
               THEN /\ cid \in DOMAIN out.all_control_following_info
                    /\ out.all_control_following_info[cid] =
                           At(SourceOf(LastControl(cid)), k_following_information)
               ELSE cid \notin DOMAIN out.all_control_following_info

(***************************************************************************)
(* Properties of the written catalog, profiles and CSV                     *)
(***************************************************************************)
\* the groups of the catalog the last run wrote
WrittenGroups == LastDir[CatalogFile].json.catalog.groups

\* the aggregated items of a group, in the order of aggregation
ItemsOf(all_controls, gid) ==
    LET InGroup(item) == item.group_id = gid
    IN  SelectSeq(all_controls, InGroup)

\* C21: the groups of the written catalog are one per group_id of the
\* aggregated set, in strictly increasing order of id, and the controls of a
\* group are the aggregated controls of that group_id, each once, in the
\* order of aggregation.
C21_GroupsSortedAndComplete ==
    lastRun.wrote =>
        /\ {WrittenGroups[g].id : g \in DOMAIN WrittenGroups}
               = {item.group_id : item \in Range(Aggregated[lastRun.input].all_controls)}
        /\ \A g, h \in DOMAIN WrittenGroups :
               g < h => StrLess(WrittenGroups[g].id, WrittenGroups[h].id)
        /\ \A g \in DOMAIN WrittenGroups :
               WrittenGroups[g].controls =
                   [k \in DOMAIN ItemsOf(Aggregated[lastRun.input].all_controls, WrittenGroups[g].id) |->
                       ItemsOf(Aggregated[lastRun.input].all_controls, WrittenGroups[g].id)[k].control]

\* a run wrote a catalog of two groups whose order is not that of their
\* first controls in the aggregated set
C21_Witness ==
    /\ lastRun.wrote
    /\ Len(WrittenGroups) >= 2
    /\ Aggregated[lastRun.input].all_controls[1].group_id # WrittenGroups[1].id
    /\ \E g \in DOMAIN WrittenGroups : Len(WrittenGroups[g].controls) >= 2

(***************************************************************************)
(* Properties of the nesting of requirements                               *)
(***************************************************************************)
\* the requirement has an id, a statement and no retired flag
Extractable(req) ==
    /\ Truthy(Get(req, k_id, EmptyStr))
    /\ Truthy(Get(req, k_statement, EmptyStr))
    /\ ~Truthy(Get(req, k_retired, JBool(FALSE)))

\* C22: a non-retired requirement with an id and a statement yields a control
\* at any depth of dict-keyed sub-sections, in a `requirements` list or as a
\* keyed entry of a sub-section.
C22_AnyDepth ==
    out # Idle =>
        ((Extractable(recs.req) /\ (recs.ending = "list" \/ recs.depth >= 1))
            => \E i \in DOMAIN out.controls :
                   out.controls[i].control.id
                       = ControlIdOfRequirement(At(recs.req, k_id).str, g_ADS))

(***************************************************************************)
(* Properties of the prose                                                 *)
(***************************************************************************)
\* a statement went through the parser and generate_csv and gave a control
Projection == call.fn = "generate_csv" /\ result # Idle /\ result[1].controls # <<>>
\* the prose of the control's row, its statement part, its guidance
RowProse == result[1].rows[2][3]
StatementText == result[1].controls[1].control.parts[1].prose
HasFollowing == result[1].controls[1].control.id \in DOMAIN result[1].following
Guidance == result[1].following[result[1].controls[1].control.id].list
\* one line per guidance item: the bullet, a space, the cleaned text
BulletLines ==
    Join([i \in DOMAIN Guidance |-> <<Bullet, " ">> \o clean_prose(Guidance[i].str)], Newline)
\* the text without the whitespace that follows a final colon
UpToColon(text) == IF EndsWith(RStrip(text), <<":">>) THEN RStrip(text) ELSE text

\* C23: the row prose of a control with following information is the
\* statement text (without the whitespace after a final colon), one newline,
\* then the bullet lines joined by newlines; without following information it
\* is the statement text alone.
C23_NewlineThenBullets ==
    Projection =>
        RowProse = IF HasFollowing
                   THEN UpToColon(StatementText) \o Newline \o BulletLines
                   ELSE StatementText

\* C23, amended: as above when the statement text is not empty; with an
\* empty statement text the row prose is the bullet lines, without a newline
\* before them.
C23_NewlineAfterText ==
    Projection =>
        RowProse = IF ~HasFollowing THEN StatementText
                   ELSE IF StatementText = <<>> THEN BulletLines
                   ELSE UpToColon(StatementText) \o Newline \o BulletLines

\* a statement that ends with a colon and a space got two bullet lines
C23_Witness ==
    /\ Projection
    /\ HasFollowing
    /\ Len(Guidance) = 2
    /\ EndsWith(StatementText, <<":", " ">>)
    /\ RowProse = <<":">> \o Newline \o <<Bullet, " ">> \o t_F \o Newline \o <<Bullet, " ", "a", "b">>

\* C24: the statement prose of an emitted control never contains the literal
\* **Optional:**, and clean_prose("**Optional:** do X") is "Optional: do X".
C24_NoBoldOptional ==
    /\ Projection => ~Contains(StatementText, BoldOptionalMarker)
    /\ (call = Call("clean_prose", <<t_BoldOptionalDoX>>) /\ result # Idle)
           => result[1] = OptionalMarker \o <<" ","d","o"," ","X">>

\* the underscores of a text that have an alphanumeric character on both
\* sides, as positions counted among the alphanumerics and such underscores
RECURSIVE InnerUnderscores(_, _)
InnerUnderscores(text, i) ==
    IF i > Len(text) THEN 0
    ELSE (IF /\ text[i] = "_" /\ 1 < i /\ i < Len(text)
             /\ IsAlnum(text[i - 1]) /\ IsAlnum(text[i + 1])
          THEN 1 ELSE 0)
         + InnerUnderscores(text, i + 1)

\* C25: clean_prose keeps every underscore that has an alphanumeric character
\* on both sides: the text has as many of them after cleaning as before, and
\* clean_prose("my_var_name") is "my_var_name".
C25_InnerUnderscoresKept ==
    (call.fn = "clean_prose" /\ result # Idle) =>
        /\ InnerUnderscores(result[1], 1) = InnerUnderscores(call.args[1], 1)
        /\ call.args[1] = t_my_var_name => result[1] = t_my_var_name

(***************************************************************************)
(* Properties of concurrent runs                                           *)
(***************************************************************************)
\* the files of the output location whose stored `published` is not the one
\* first written to them
Republished ==
    {vf \in DOMAIN history.first :
        /\ IsJson(store[vf[1]][vf[2]])
        /\ Body(store[vf[1]][vf[2]].json).metadata.published # history.first[vf]}

\* C26: the stored `published` of a version differs from the value first
\* written for it only when runs overlapped, one reading the output location
\* before another had written its files; with runs strictly one after another
\* no such state is reachable.
C26_RepublishedOnlyByOverlap == Republished # {} => history.overlapped

\* two runs read the location before either wrote, both have written, and
\* the catalog's `published` is no longer the one first written
C26_Witness ==
    /\ history.overlapped
    /\ \A p \in Procs : pending[p] = Idle
    /\ \E vf \in Republished : vf[2] = CatalogFile

\* the import of a stored profile
Import(file) == file.json.profile.imports[1]

\* C28: every control id in the with-ids of each of the three profiles a run
\* wrote is the id of a control in some group of the catalog the same run
\* wrote, and the href of the profile's import is "#" followed by the uuid of
\* that catalog.
C28_ProfilesReferToCatalog ==
    lastRun.wrote =>
        \A level \in LevelSet :
            /\ Range(WithIds(LastDir[ProfileFile(level)])) \subseteq Range(CatalogIds(WrittenGroups))
            /\ Import(LastDir[ProfileFile(level)]).href
                   = <<"#", LastDir[CatalogFile].json.catalog.uuid>>

\* a run wrote a profile that lists some of the controls of its catalog and
\* not all of them
C28_Witness ==
    /\ lastRun.wrote
    /\ \E level \in LevelSet :
           /\ WithIds(LastDir[ProfileFile(level)]) # <<>>
           /\ Range(WithIds(LastDir[ProfileFile(level)])) # Range(CatalogIds(WrittenGroups))

\* the set of control ids a stored profile lists
IdSet(file) == Range(WithIds(file))

\* the stored catalog of the version differs from the one the step stores,
\* the timestamps apart
CatalogContentChanged(version) ==
    StripTimestamps(store'[version][CatalogFile].json)
        # StripTimestamps(store[version][CatalogFile].json)

\* C29: in a re-run for an existing version in which the content of the
\* catalog changed and the set of control ids of level L did not, the profile
\* of L is written with published and last-modified exactly as in its
\* snapshot and the catalog with last-modified at an instant of the run; and
\* a profile whose id set changed is written with last-modified at an instant
\* of the run, whether or not the catalog changed.
C29_PerArtifact ==
    [][(lastRun'.wrote /\ ~lastRun'.version_changed) =>
          \A level \in LevelSet :
              LET old == store[lastRun'.version][ProfileFile(level)]
                  new == store'[lastRun'.version][ProfileFile(level)]
              IN  /\ (CatalogContentChanged(lastRun'.version) /\ IdSet(new) = IdSet(old)) =>
                        /\ Meta(new).published = Meta(old).published
                        /\ Meta(new).last_modified = Meta(old).last_modified
                        /\ lastRun'.changed[CatalogFile]
                        /\ Meta(store'[lastRun'.version][CatalogFile]).last_modified \in Instants
                  /\ IdSet(new) # IdSet(old) =>
                        /\ lastRun'.changed[ProfileFile(level)]
                        /\ Meta(new).last_modified \in Instants]_vars

(***************************************************************************)
(* Properties of the parsers: the source document                          *)
(***************************************************************************)
\* the records of the document after the call that are not what they were
\* before it
RecordsChanged == {path \in Range(Parsed(parser, DocOf(parser, recs)).touched) :
                      PartAt(document, path) # PartAt(DocOf(parser, recs), path)}

\* C27: after any of the four parsers has processed a document, the document,
\* every record of it with its `impact` object and its
\* `following_information` list, has exactly the keys and values it had
\* before parsing.
C27_DocumentUnchanged == out # Idle => document = DocOf(parser, recs)

====
